---------------------------- MODULE Spec2Model ----------------------------
(***************************************************************************)
(* tsconvert: conversion of tree text formats (ms, newick) into tskit      *)
(* node/edge tables and back.  The model follows src/tsconvert/newick.py.  *)
(*                                                                         *)
(* Numbers.  Times, branch lengths and genomic coordinates are integers:   *)
(* one unit is the smallest difference the text form prints (10^-precision *)
(* of Tree.newick), so that printing a number and reading it back is exact *)
(* on this grid.  What the conversions do to the numbers is kept: the text *)
(* carries branch lengths and leaf labels, never times or node ids, and    *)
(* the readers rebuild times by summing lengths along the tree.            *)
(*                                                                         *)
(* Ids.  Table rows are numbered from 0 as in tskit; row i of a table is   *)
(* element i+1 of the sequence that models it.                             *)
(***************************************************************************)
EXTENDS Integers, Sequences, FiniteSets, TLC

VARIABLES
    call,       \* which entry point this behaviour runs
    arg,        \* the arguments of the call
    pc,         \* position inside the running function
    loc,        \* the function's local variables (named as in the source)
    tables,     \* the tskit.TableCollection under construction
    ret         \* what the call returned or raised

vars == <<call, arg, pc, loc, tables, ret>>

---------------------------------------------------------------------------
(* Bounds of the model. *)

MaxLen == 2        \* branch lengths in the text are 0..MaxLen
MaxSpan == 2       \* numeric interval lengths are -1..MaxSpan
MaxTrees == 2      \* tree lines in one ms output
MaxLabel == 3      \* leaf labels are 1..MaxLabel

(* dendropy's default ultrametricity_precision used by calc_node_ages().   *)
(* It is larger than the unit of the grid; the model takes it to be one    *)
(* unit, the least difference that two path lengths can have.              *)
UltraTol == 1

---------------------------------------------------------------------------
(* Generic helpers. *)

Range(s) == {s[i] : i \in DOMAIN s}

Abs(x) == IF x < 0 THEN -x ELSE x

RECURSIVE SumSeq(_)
SumSeq(s) == IF s = <<>> THEN 0 ELSE Head(s) + SumSeq(Tail(s))

RECURSIVE Concat(_)
Concat(ss) == IF ss = <<>> THEN <<>> ELSE Head(ss) \o Concat(Tail(ss))

(* The integers of S in ascending order. *)
RECURSIVE SetToSeq(_)
SetToSeq(S) ==
    IF S = {} THEN <<>>
    ELSE LET x == CHOOSE y \in S : \A z \in S : y <= z
         IN  <<x>> \o SetToSeq(S \ {x})

(* The elements of S in some order. *)
RECURSIVE SeqOfSet(_)
SeqOfSet(S) ==
    IF S = {} THEN <<>>
    ELSE LET x == CHOOSE y \in S : TRUE
         IN  <<x>> \o SeqOfSet(S \ {x})

---------------------------------------------------------------------------
(* Parsed trees (dendropy.Tree / newick.Node).  A tree is a record         *)
(*   kids : node -> sequence of its children, in text order                *)
(*   len  : node -> length of the edge above it (0 at a root without one)  *)
(*   lab  : node -> leaf label (0 where the text gives none)               *)
(* over nodes 1..k, node 1 being the root (seed node).                     *)

Nodes(t) == DOMAIN t.kids

IsLeaf(t, u) == t.kids[u] = <<>>

RECURSIVE preorder(_, _)
RECURSIVE preorderAll(_, _)
preorder(t, u) == <<u>> \o preorderAll(t, t.kids[u])
preorderAll(t, us) ==
    IF us = <<>> THEN <<>> ELSE preorder(t, Head(us)) \o preorderAll(t, Tail(us))

(* Tree.leaf_node_iter(): the leaves in preorder. *)
leaf_node_iter(t) == SelectSeq(preorder(t, 1), LAMBDA u : IsLeaf(t, u))

InternalNodes(t) == SelectSeq(preorder(t, 1), LAMBDA u : ~IsLeaf(t, u))

ParentOf(t, u) ==
    IF \E p \in Nodes(t) : u \in Range(t.kids[p])
    THEN CHOOSE p \in Nodes(t) : u \in Range(t.kids[p])
    ELSE 0

LeafLabels(t) == {t.lab[u] : u \in Range(leaf_node_iter(t))}


---------------------------------------------------------------------------
(* dendropy: node ages.                                                    *)

(* Tree.calc_node_ages(): a leaf has age 0; an internal node has the age   *)
(* of its FIRST child plus that child's edge length.                       *)
RECURSIVE NodeAge(_, _)
NodeAge(t, u) ==
    IF IsLeaf(t, u) THEN 0
    ELSE LET c == Head(t.kids[u]) IN NodeAge(t, c) + t.len[c]

(* calc_node_ages() raises UltrametricityError when another child of a     *)
(* node puts it at an age further than the precision from that age.        *)
IsUltrametric(t) ==
    \A u \in Nodes(t) : \A i \in DOMAIN t.kids[u] :
        Abs(NodeAge(t, u) - (NodeAge(t, t.kids[u][i]) + t.len[t.kids[u][i]])) <= UltraTol

(* Tree.ageorder_node_iter(include_leaves=False): the internal nodes by    *)
(* ascending age; nodes of equal age stay in preorder.                     *)
RECURSIVE AgeSorted(_, _)
AgeSorted(t, s) ==
    IF s = <<>> THEN <<>>
    ELSE LET rest == AgeSorted(t, SubSeq(s, 1, Len(s) - 1))
             x == s[Len(s)]
         IN  SelectSeq(rest, LAMBDA y : NodeAge(t, y) <= NodeAge(t, x))
             \o <<x>>
             \o SelectSeq(rest, LAMBDA y : NodeAge(t, y) > NodeAge(t, x))

ageorder_node_iter(t) == AgeSorted(t, InternalNodes(t))

(* node_ages of from_ms, and whether two of them are equal. *)
node_ages(t) == [i \in DOMAIN ageorder_node_iter(t) |-> NodeAge(t, ageorder_node_iter(t)[i])]

(* A slip: the ages never found equal, the check left out. *)
NoEqualAgesFound(t) == FALSE

HasEqualInternalAges(t) == Cardinality(Range(node_ages(t))) # Len(node_ages(t))

---------------------------------------------------------------------------
(* The trees the model reads: every shape on two or three leaves, and the  *)
(* balanced shape on four.                                                 *)

ShapeCherry == << <<2, 3>>, <<>>, <<>> >>
ShapeStar == << <<2, 3, 4>>, <<>>, <<>>, <<>> >>
ShapeCatL == << <<2, 3>>, <<4, 5>>, <<>>, <<>>, <<>> >>
ShapeCatR == << <<2, 3>>, <<>>, <<4, 5>>, <<>>, <<>> >>
ShapeBal == << <<2, 3>>, <<4, 5>>, <<6, 7>>, <<>>, <<>>, <<>>, <<>> >>

MkTree(kids, len, lab) == [kids |-> kids, len |-> len, lab |-> lab]

NoTree == MkTree(<<>>, <<>>, <<>>)

ShapeLeaves(kids) == {u \in DOMAIN kids : kids[u] = <<>>}

(* Labellings of a shape: distinct labels on the leaves, internal nodes    *)
(* unlabelled.  Sibling leaves carry increasing labels when ordered.       *)
Labellings(kids, ordered) ==
    { [u \in DOMAIN kids |-> IF u \in ShapeLeaves(kids) THEN f[u] ELSE 0] :
        f \in { g \in [ShapeLeaves(kids) -> 1..MaxLabel] :
                  /\ \A u, v \in ShapeLeaves(kids) : u # v => g[u] # g[v]
                  /\ ordered =>
                        \A p \in DOMAIN kids : \A i, j \in DOMAIN kids[p] :
                            (i < j /\ kids[p][i] \in ShapeLeaves(kids)
                                   /\ kids[p][j] \in ShapeLeaves(kids))
                            => g[kids[p][i]] < g[kids[p][j]] } }

(* Every tree of a shape with edge lengths drawn from L. *)
TreesOfShape(kids, L, ordered) ==
    { MkTree(kids, [u \in DOMAIN kids |-> IF u = 1 THEN 0 ELSE l[u]], lab) :
        l \in [(DOMAIN kids) \ {1} -> L], lab \in Labellings(kids, ordered) }

AllTrees ==
    TreesOfShape(ShapeCherry, 0..MaxLen, TRUE)
    \cup TreesOfShape(ShapeStar, 0..MaxLen, TRUE)
    \cup TreesOfShape(ShapeCatL, 0..MaxLen, TRUE)
    \cup TreesOfShape(ShapeCatR, 0..MaxLen, TRUE)

(* The plain ones: ultrametric with positive lengths, leaves in any order. *)
PlainTrees ==
    { t \in TreesOfShape(ShapeCherry, 1..MaxLen, FALSE)
            \cup TreesOfShape(ShapeCatL, 1..MaxLen, TRUE)
            \cup TreesOfShape(ShapeCatR, 1..MaxLen, TRUE) :
        \A u \in Nodes(t) : \A i \in DOMAIN t.kids[u] :
            NodeAge(t, u) = NodeAge(t, t.kids[u][i]) + t.len[t.kids[u][i]] }

(* The plain trees as ms writes them: leaves 1..n, each internal node one *)
(* unit above its oldest child.                                            *)
UnitTrees ==
    { t \in PlainTrees :
        /\ LeafLabels(t) = 1..Cardinality(LeafLabels(t))
        /\ \A u \in Range(InternalNodes(t)) : \E i \in DOMAIN t.kids[u] : t.len[t.kids[u][i]] = 1 }

UnitCherries == {t \in UnitTrees : Len(t.kids) = 3}

---------------------------------------------------------------------------
(* tskit: the table collection.                                            *)

NODE_IS_SAMPLE == 1

(* tskit.TableCollection(sequence_length) *)
TableCollection(L) == [sequence_length |-> L, nodes |-> <<>>, edges |-> <<>>]

(* tables.nodes.add_row(flags, time): the new row's id is the old length. *)
nodes_add_row(tb, flags, time) ==
    [tb EXCEPT !.nodes = Append(@, [flags |-> flags, time |-> time])]

(* tables.edges.add_row(left, right, parent, child) *)
edges_add_row(tb, left, right, parent, child) ==
    [tb EXCEPT !.edges = Append(@, [left |-> left, right |-> right,
                                    parent |-> parent, child |-> child])]

NumNodes(tb) == Len(tb.nodes)
NodeIds(tb) == 0..(NumNodes(tb) - 1)
NodeTime(tb, i) == tb.nodes[i + 1].time
IsSample(tb, i) == tb.nodes[i + 1].flags = NODE_IS_SAMPLE
Samples(tb) == {i \in NodeIds(tb) : IsSample(tb, i)}
EdgeSet(tb) == Range(tb.edges)

(* The order of tables.sort(): parent time, parent id, child id, left. *)
EdgeBefore(tb, e, f) ==
    LET te == NodeTime(tb, e.parent)
        tf == NodeTime(tb, f.parent)
    IN  \/ te < tf
        \/ te = tf /\ e.parent < f.parent
        \/ te = tf /\ e.parent = f.parent /\ e.child < f.child
        \/ te = tf /\ e.parent = f.parent /\ e.child = f.child /\ e.left < f.left

RECURSIVE SortEdges(_, _)
SortEdges(tb, es) ==
    IF es = <<>> THEN <<>>
    ELSE LET rest == SortEdges(tb, SubSeq(es, 1, Len(es) - 1))
             x == es[Len(es)]
         IN  SelectSeq(rest, LAMBDA y : ~EdgeBefore(tb, x, y))
             \o <<x>>
             \o SelectSeq(rest, LAMBDA y : EdgeBefore(tb, x, y))

(* tables.sort() needs the time of every edge's parent. *)
SortFails(tb) == \E e \in EdgeSet(tb) : e.parent \notin NodeIds(tb)

tables_sort(tb) == [tb EXCEPT !.edges = SortEdges(tb, tb.edges)]

(* What tskit requires of a table collection before it simplifies it or    *)
(* builds trees from it; a violation raises a tskit exception.             *)
TablesValid(tb) ==
    /\ tb.sequence_length > 0
    /\ \A e \in EdgeSet(tb) :
          /\ e.parent \in NodeIds(tb)
          /\ e.child \in NodeIds(tb)
          /\ 0 <= e.left
          /\ e.left < e.right
          /\ e.right <= tb.sequence_length
          /\ NodeTime(tb, e.parent) > NodeTime(tb, e.child)
    /\ \A i, j \in DOMAIN tb.edges :
          (i < j /\ tb.edges[i].child = tb.edges[j].child)
          => (tb.edges[i].right <= tb.edges[j].left
              \/ tb.edges[j].right <= tb.edges[i].left)

(* The local tree at position x. *)
Breakpoints(tb) ==
    {0, tb.sequence_length}
    \cup {e.left : e \in EdgeSet(tb)} \cup {e.right : e \in EdgeSet(tb)}

EdgesAt(tb, x) == {e \in EdgeSet(tb) : e.left <= x /\ x < e.right}

(* The local tree at x as a parent array: -1 marks a root. *)
ParentArray(tb, x) ==
    LET es == EdgesAt(tb, x)
    IN  [c \in NodeIds(tb) |->
            IF \E e \in es : e.child = c
            THEN (CHOOSE e \in es : e.child = c).parent
            ELSE -1]

ChildrenIn(pa, u) == {c \in DOMAIN pa : pa[c] = u}

(* u, its parent, its grandparent, ... up to the root. *)
RECURSIVE PathUp(_, _)
PathUp(pa, u) == IF u = -1 THEN <<>> ELSE <<u>> \o PathUp(pa, pa[u])

(* The samples at or below each node. *)
SamplesBelow(tb, pa) ==
    LET paths == [s \in Samples(tb) |-> Range(PathUp(pa, s))]
    IN  [u \in DOMAIN pa |-> {s \in Samples(tb) : u \in paths[s]}]

(* tables.simplify(): at each position a node stays when it is a sample or *)
(* when samples descend from at least two of its children; each staying    *)
(* node hangs from the nearest staying node above it.                      *)
(* A slip: each staying node hung from every staying node above it. *)
SimplifiedPairsAllAbove(tb, x) ==
    LET pa == ParentArray(tb, x)
        below == SamplesBelow(tb, pa)
        stays == {u \in DOMAIN pa :
                    \/ IsSample(tb, u)
                    \/ Cardinality({c \in ChildrenIn(pa, u) : below[c] # {}}) >= 2}
        up(c) == SelectSeq(Tail(PathUp(pa, c)), LAMBDA a : a \in stays)
    IN  UNION { { <<a, c>> : a \in Range(up(c)) } : c \in stays }

SimplifiedPairs(tb, x) ==
    LET pa == ParentArray(tb, x)
        below == SamplesBelow(tb, pa)
        stays == {u \in DOMAIN pa :
                    \/ IsSample(tb, u)
                    \/ Cardinality({c \in ChildrenIn(pa, u) : below[c] # {}}) >= 2}
        up(c) == SelectSeq(Tail(PathUp(pa, c)), LAMBDA a : a \in stays)
    IN  { <<Head(up(c)), c>> : c \in {d \in stays : up(d) # <<>>} }

(* Edges of the simplified tables: one per parent/child pair and maximal   *)
(* run of adjacent intervals on which the pair is present (squashing).     *)
SquashedEdges(tb) ==
    LET bs == SetToSeq(Breakpoints(tb))
        k == Len(bs) - 1
        prs == [i \in 1..k |-> SimplifiedPairs(tb, bs[i])]
        starts(pr) == {i \in 1..k : pr \in prs[i] /\ (i = 1 \/ pr \notin prs[i - 1])}
        stop(pr, i) == CHOOSE j \in i..k :
                          /\ \A m \in i..j : pr \in prs[m]
                          /\ (j = k \/ pr \notin prs[j + 1])
    IN  UNION { { [left |-> bs[i], right |-> bs[stop(pr, i) + 1],
                   parent |-> pr[1], child |-> pr[2]] : i \in starts(pr) } :
                pr \in UNION {prs[i] : i \in 1..k} }

(* Simplify numbers the samples first, in their order, and then the other  *)
(* staying nodes in the order it meets them as parents: by time, then id.  *)
RECURSIVE OrderNodes(_, _)
OrderNodes(tb, S) ==
    IF S = {} THEN <<>>
    ELSE LET u == CHOOSE v \in S : \A w \in S :
                     \/ NodeTime(tb, v) < NodeTime(tb, w)
                     \/ NodeTime(tb, v) = NodeTime(tb, w) /\ v <= w
         IN  <<u>> \o OrderNodes(tb, S \ {u})

tables_simplify(tb) ==
    LET es == SquashedEdges(tb)
        kept == {e.parent : e \in es} \ Samples(tb)
        order == SetToSeq(Samples(tb)) \o OrderNodes(tb, kept)
        newid(u) == (CHOOSE i \in DOMAIN order : order[i] = u) - 1
        nodes == [i \in DOMAIN order |-> tb.nodes[order[i] + 1]]
        out == [sequence_length |-> tb.sequence_length, nodes |-> nodes, edges |-> <<>>]
        renamed == { [left |-> e.left, right |-> e.right,
                      parent |-> newid(e.parent), child |-> newid(e.child)] : e \in es }
    IN  [out EXCEPT !.edges = SortEdges(out, SeqOfSet(renamed))]

---------------------------------------------------------------------------
(* What a call returns or raises. *)

NoTables == TableCollection(0)

Running == [kind |-> "none", exc |-> "", msg |-> "", index |-> -1, ts |-> NoTables]

Raise(exc, msg, index) ==
    [kind |-> "error", exc |-> exc, msg |-> msg, index |-> index, ts |-> NoTables]

(* tables.tree_sequence(): the immutable view of the tables. *)
tree_sequence(tb) ==
    [kind |-> "ts", exc |-> "", msg |-> "", index |-> -1, ts |-> tb]

---------------------------------------------------------------------------
(* ms output as text.  A line is what line.strip() leaves of it:           *)
(*   bracket : whether the stripped line starts with "["                   *)
(*   comment : the bracketed text in front of the tree, if the line has    *)
(*             one: a number, other text, or none                          *)
(*   tree    : the newick statement on the line                            *)

Comment(k, v) == [k |-> k, v |-> v]

OtherLine == [bracket |-> FALSE, comment |-> Comment("none", 0), tree |-> NoTree]

TreeLine(c, t) == [bracket |-> TRUE, comment |-> c, tree |-> t]

Comments == {Comment("num", n) : n \in -1..MaxSpan}
            \cup {Comment("text", 0), Comment("none", 0)}

(* Header and trailer lines around blocks of plain two-leaf trees. *)
ScanTreeLines ==
    { TreeLine(Comment("num", n), t) :
        n \in {1, MaxSpan},
        t \in UnitCherries }

ScanInputs(n) ==
    { pre \o block \o post :
        pre \in {<<>>, <<OtherLine>>},
        block \in [1..n -> ScanTreeLines],
        post \in {<<>>, <<OtherLine>>} \cup {<<OtherLine, l>> : l \in ScanTreeLines} }

(* Every kind of interval length in front of n two-leaf trees. *)
SpanInputs(n) == [1..n -> {TreeLine(c, t) : c \in Comments, t \in UnitCherries}]

(* A tree t, alone or beside a tree as ms writes them. *)
TreeInputs(t) ==
    { <<TreeLine(Comment("num", n), t)>> : n \in 1..MaxSpan }
    \cup { <<TreeLine(Comment("num", 1), t), TreeLine(Comment("num", MaxSpan), u)>> :
             u \in UnitTrees }
    \cup { <<TreeLine(Comment("num", 1), u), TreeLine(Comment("num", MaxSpan), t)>> :
             u \in UnitTrees }

---------------------------------------------------------------------------
(* from_ms.  Each part of the function is an operator from the state of    *)
(* the call (its position, locals, tables and outcome) to the next one.    *)

MsLocals ==
    [tree_lines |-> <<>>, trees |-> <<>>, spans |-> <<>>, i |-> 0,
     age_id_map |-> <<>>, left |-> 0]

MsStart == [pc |-> "scan", loc |-> MsLocals, tables |-> NoTables, ret |-> Running]

Fail(s, r) == [s EXCEPT !.pc = "done", !.ret = r]

(* The loop over string.splitlines(): lines before the first tree line are *)
(* skipped, tree lines are collected, and the first other line after a     *)
(* tree line ends the loop.                                                *)
RECURSIVE ScanLinesNoBreak(_, _, _)
RECURSIVE ScanLines(_, _, _)

(* A slip: the loop goes on after the tree block, and collects every line  *)
(* that starts with "[".                                                   *)
ScanLinesNoBreak(lines, recording_trees, tree_lines) ==
    IF lines = <<>> THEN tree_lines
    ELSE IF Head(lines).bracket
         THEN ScanLinesNoBreak(Tail(lines), TRUE, Append(tree_lines, Head(lines)))
    ELSE ScanLinesNoBreak(Tail(lines), recording_trees, tree_lines)

ScanLines(lines, recording_trees, tree_lines) ==
    IF lines = <<>> THEN tree_lines
    ELSE IF Head(lines).bracket
         THEN ScanLines(Tail(lines), TRUE, Append(tree_lines, Head(lines)))
    ELSE IF recording_trees THEN tree_lines
    ELSE ScanLines(Tail(lines), recording_trees, tree_lines)

ms_scan(string, s) ==
    LET tree_lines == ScanLines(string, FALSE, <<>>)
    IN  IF tree_lines = <<>>
        THEN Fail(s, Raise("ValueError", "no lines starting with [", -1))
        ELSE [s EXCEPT !.loc.tree_lines = tree_lines, !.pc = "parse"]

(* dendropy.TreeList.get: one tree per statement of the joined lines. *)
ms_parse(s) ==
    LET trees == [i \in DOMAIN s.loc.tree_lines |->
                     [comment |-> s.loc.tree_lines[i].comment,
                      tree |-> s.loc.tree_lines[i].tree]]
    IN  IF Len(trees) = 0
        THEN Fail(s, Raise("ValueError", "No valid trees in ms file", -1))
        ELSE [s EXCEPT !.loc.trees = trees, !.loc.i = 0, !.pc = "validate"]

(* A slip: only a positive number taken as an interval length. *)
SpanParsesPositive(c) == c.k = "num" /\ c.v > 0

(* float(tree.comments[0]): IndexError without a comment, ValueError on    *)
(* text that is no number; any number parses, whatever its sign.           *)
SpanParses(c) == c.k = "num"

(* trees.taxon_namespace: the labels of all the trees read together. *)
taxon_namespace(trees) == UNION {LeafLabels(trees[i].tree) : i \in DOMAIN trees}

(* A slip: the tips of a tree counted against the tips of the first tree. *)
TipsMissingByCount(trees, tree) ==
    Len(leaf_node_iter(trees[1].tree)) # Len(leaf_node_iter(tree))

(* len(trees.taxon_namespace) != sum(1 for _ in tree.leaf_node_iter()) *)
TipsMissing(trees, tree) ==
    Cardinality(taxon_namespace(trees)) # Len(leaf_node_iter(tree))

(* The checks of tree i (counted from 0), in the order the loop makes them. *)
ValidateTree(trees, i) ==
    LET tree == trees[i + 1].tree
    IN  IF ~SpanParses(trees[i + 1].comment)
        THEN Raise("ValueError", "Problem reading integer # of positions spanned", i)
        ELSE IF TipsMissing(trees, tree)
        THEN Raise("ValueError", "does not have all expected tips", i)
        ELSE IF ~IsUltrametric(tree)
        THEN Raise("UltrametricityError", "", -1)
        ELSE IF HasEqualInternalAges(tree)
        THEN Raise("ValueError", "two internal nodes with the same time", i)
        ELSE Running

(* A slip: the checks made of the first tree only. *)
ms_validate_first_only(s) ==
    LET r == IF s.loc.i = 0 THEN ValidateTree(s.loc.trees, s.loc.i) ELSE Running
    IN  IF r.kind = "error" THEN Fail(s, r)
        ELSE [s EXCEPT !.loc.spans = Append(@, s.loc.trees[s.loc.i + 1].comment.v),
                       !.loc.i = @ + 1]

(* One pass of the loop that reads the spans and checks each tree. *)
ms_validate(s) ==
    LET r == ValidateTree(s.loc.trees, s.loc.i)
    IN  IF r.kind = "error" THEN Fail(s, r)
        ELSE [s EXCEPT !.loc.spans = Append(@, s.loc.trees[s.loc.i + 1].comment.v),
                       !.loc.i = @ + 1]

(* The samples, from the leaves of the first tree. *)
RECURSIVE AddSamples(_, _, _)
AddSamples(tb, tree, leaves) ==
    IF leaves = <<>> THEN tb
    ELSE AddSamples(nodes_add_row(tb, NODE_IS_SAMPLE, NodeAge(tree, Head(leaves))),
                    tree, Tail(leaves))

(* tables = tskit.TableCollection(sum(spans)), then the sample rows. *)
ms_tables(s) ==
    [s EXCEPT !.tables = AddSamples(TableCollection(SumSeq(s.loc.spans)),
                                    s.loc.trees[1].tree,
                                    leaf_node_iter(s.loc.trees[1].tree)),
              !.loc.left = 0, !.loc.i = 0, !.pc = "trees"]

(* A slip: the label taken as the row id, without the shift by one. *)
LeafChildIdUnshifted(label) == label

(* int(child.taxon.label) - 1: the sample row of a leaf. *)
LeafChildId(label) == label - 1

(* The inner loop: one edge per child of node.  A child that is not a leaf *)
(* is looked up by its age, and the lookup raises KeyError when the age    *)
(* has no entry yet.                                                       *)
RECURSIVE AddChildEdges(_, _, _, _, _, _)
AddChildEdges(st, tree, children, left, right, parent_id) ==
    IF children = <<>> \/ ~st.ok THEN st
    ELSE LET child == Head(children)
             next ==
                 IF IsLeaf(tree, child)
                 THEN [st EXCEPT !.tables =
                          edges_add_row(@, left, right, parent_id,
                                        LeafChildId(tree.lab[child]))]
                 ELSE IF NodeAge(tree, child) \notin DOMAIN st.age_id_map
                 THEN [st EXCEPT !.ok = FALSE]
                 ELSE [st EXCEPT !.tables =
                          edges_add_row(@, left, right, parent_id,
                                        st.age_id_map[NodeAge(tree, child)])]
         IN  AddChildEdges(next, tree, Tail(children), left, right, parent_id)

(* A slip: the row of an internal node flagged as a sample. *)
ResolveAgeFlagged(st, age) ==
    IF age \notin DOMAIN st.age_id_map
    THEN [st EXCEPT !.tables = nodes_add_row(@, NODE_IS_SAMPLE, age),
                    !.age_id_map = (age :> NumNodes(st.tables)) @@ @]
    ELSE st

(* A slip: a new row at every sighting of an age. *)
ResolveAgeAlwaysNew(st, age) ==
    [st EXCEPT !.tables = nodes_add_row(@, 0, age),
               !.age_id_map = [a \in DOMAIN @ \cup {age} |->
                                  IF a = age THEN NumNodes(st.tables) ELSE @[a]]]

(* The id of the node of a given age: the row made when the age was first  *)
(* seen, or a new row.                                                     *)
ResolveAge(st, age) ==
    IF age \notin DOMAIN st.age_id_map
    THEN [st EXCEPT !.tables = nodes_add_row(@, 0, age),
                    !.age_id_map = (age :> NumNodes(st.tables)) @@ @]
    ELSE st

(* The loop over tree.ageorder_node_iter(include_leaves=False). *)
RECURSIVE AddTreeNodes(_, _, _, _, _)
AddTreeNodes(st, tree, nodes, left, right) ==
    IF nodes = <<>> \/ ~st.ok THEN st
    ELSE LET age == NodeAge(tree, Head(nodes))
             st1 == ResolveAge(st, age)
         IN  AddTreeNodes(
                 AddChildEdges(st1, tree, tree.kids[Head(nodes)], left, right,
                               st1.age_id_map[age]),
                 tree, Tail(nodes), left, right)

(* A slip: the span taken as the right end, whatever the left end. *)
RightOfSpan(left, span) == span

(* right = left + span *)
RightOf(left, span) == left + span

(* One pass of the loop over zip(spans, trees). *)
ms_tree(s) ==
    LET tree == s.loc.trees[s.loc.i + 1].tree
        right == RightOf(s.loc.left, s.loc.spans[s.loc.i + 1])
        st == AddTreeNodes([tables |-> s.tables, age_id_map |-> s.loc.age_id_map,
                            ok |-> TRUE],
                           tree, ageorder_node_iter(tree), s.loc.left, right)
    IN  IF ~st.ok THEN Fail(s, Raise("KeyError", "", -1))
        ELSE [s EXCEPT !.tables = st.tables, !.loc.age_id_map = st.age_id_map,
                       !.loc.left = right, !.loc.i = @ + 1]

(* tables.sort(); tables.simplify(); return tables.tree_sequence() *)
ms_finish(s) ==
    IF SortFails(s.tables) \/ ~TablesValid(s.tables)
    THEN Fail(s, Raise("TskitException", "", -1))
    ELSE LET tb == tables_simplify(tables_sort(s.tables))
         IN  [s EXCEPT !.tables = tb, !.ret = tree_sequence(tb), !.pc = "done"]

(* from_ms from any position to its end. *)
StepMs(string, s) ==
    CASE s.pc = "scan" -> ms_scan(string, s)
      [] s.pc = "parse" -> ms_parse(s)
      [] s.pc = "validate" ->
            IF s.loc.i < Len(s.loc.trees) THEN ms_validate(s) ELSE ms_tables(s)
      [] s.pc = "trees" ->
            IF s.loc.i < Len(s.loc.trees) THEN ms_tree(s) ELSE ms_finish(s)
      [] OTHER -> s

RECURSIVE RunMs(_, _)
RunMs(string, s) == IF s.pc = "done" THEN s ELSE RunMs(string, StepMs(string, s))

from_ms(string) == RunMs(string, MsStart).ret

---------------------------------------------------------------------------
(* to_ms *)

(* ts.trees(): one local tree per interval between adjacent breakpoints. *)
TreeIntervals(ts) ==
    LET bs == SetToSeq(Breakpoints(ts))
    IN  [k \in 1..(Len(bs) - 1) |-> [left |-> bs[k], right |-> bs[k + 1]]]

num_trees(ts) == Len(TreeIntervals(ts))

(* The roots of the local tree: the tops of the paths from the samples. *)
Roots(ts, pa) ==
    {PathUp(pa, s)[Len(PathUp(pa, s))] : s \in Samples(ts)}

RECURSIVE TsPreorder(_, _)
RECURSIVE TsPreorderAll(_, _)
TsPreorder(pa, u) == <<u>> \o TsPreorderAll(pa, SetToSeq(ChildrenIn(pa, u)))
TsPreorderAll(pa, us) ==
    IF us = <<>> THEN <<>>
    ELSE TsPreorder(pa, Head(us)) \o TsPreorderAll(pa, Tail(us))

(* tree.newick(): the local tree at x as text.  The text holds, for every  *)
(* node, its children in order, the length of the branch above it (parent *)
(* time minus its own time) and, on a leaf, the label id + 1.              *)
newick(ts, x) ==
    LET pa == ParentArray(ts, x)
        root == CHOOSE r \in Roots(ts, pa) : TRUE
        P == TsPreorder(pa, root)
        pos(u) == CHOOSE i \in DOMAIN P : P[i] = u
        kidsOf(u) == SetToSeq(ChildrenIn(pa, u))
    IN  MkTree([i \in DOMAIN P |-> [j \in DOMAIN kidsOf(P[i]) |-> pos(kidsOf(P[i])[j])]],
               [i \in DOMAIN P |->
                   IF i = 1 THEN 0 ELSE NodeTime(ts, pa[P[i]]) - NodeTime(ts, P[i])],
               [i \in DOMAIN P |->
                   IF ChildrenIn(pa, P[i]) = {} THEN P[i] + 1 ELSE 0])

(* newick() needs a tree with one root. *)
NewickFails(ts) ==
    \E k \in DOMAIN TreeIntervals(ts) :
        Cardinality(Roots(ts, ParentArray(ts, TreeIntervals(ts)[k].left))) # 1

(* A slip: the right end written for the length. *)
IntervalRightEnd(interval) == interval.right

(* span = tree.interval[1] - tree.interval[0] *)
IntervalSpan(interval) == interval.right - interval.left

(* output += f"[{span}]{tree.newick()}\n" for every tree *)
to_ms(ts) ==
    [k \in DOMAIN TreeIntervals(ts) |->
        TreeLine(Comment("num", IntervalSpan(TreeIntervals(ts)[k])),
                 newick(ts, TreeIntervals(ts)[k].left))]

---------------------------------------------------------------------------
(* Tree sequences to write out: samples 0..n-1 at time 0, then internal    *)
(* nodes in time order, and one or two local trees in which every internal *)
(* node has at least two children (a simplified tree sequence); or samples *)
(* alone, without an edge, every sample a root.                            *)

MaxSamples == 4       \* samples of a tree sequence
PairSamples == 3      \* samples of a tree sequence of two trees
MaxInternal == 3      \* internal nodes of a tree sequence
MaxTime == 3          \* node times are 0..MaxTime

NodeTables ==
    UNION { { [i \in 1..(n + m) |->
                 IF i <= n THEN [flags |-> NODE_IS_SAMPLE, time |-> 0]
                 ELSE [flags |-> 0, time |-> t[i - n]]] :
              t \in {u \in [1..m -> 1..MaxTime] :
                        \A i \in 1..(m - 1) : u[i] <= u[i + 1]} } :
            n \in 2..MaxSamples, m \in 0..MaxInternal }

(* Parent arrays over the first k nodes: a parent is older than its child. *)
RECURSIVE ParentSeqs(_, _)
ParentSeqs(nodes, k) ==
    IF k = 0 THEN {<<>>}
    ELSE { Append(q, p) :
             q \in ParentSeqs(nodes, k - 1),
             p \in {-1} \cup {u \in 0..(Len(nodes) - 1) :
                                /\ nodes[u + 1].flags = 0
                                /\ nodes[u + 1].time > nodes[k].time} }

(* The local trees over a node table, as parent arrays: the nodes in use   *)
(* form one tree, and every internal node in use has two children or more. *)
LocalTrees(nodes) ==
    LET N == Len(nodes)
        inner == {u \in 0..(N - 1) : nodes[u + 1].flags = 0}
        leaves == (0..(N - 1)) \ inner
    IN  { pa \in {[c \in 0..(N - 1) |-> q[c + 1]] : q \in ParentSeqs(nodes, N)} :
            LET used == {u \in inner : \E c \in 0..(N - 1) : pa[c] = u}
            IN  /\ \A u \in inner \ used : pa[u] = -1
                /\ \A u \in used : Cardinality({c \in 0..(N - 1) : pa[c] = u}) >= 2
                /\ Cardinality({u \in leaves \cup used : pa[u] = -1}) = 1 }

EdgesOf(pa, left, right) ==
    { [left |-> left, right |-> right, parent |-> pa[c], child |-> c] :
        c \in {d \in DOMAIN pa : pa[d] # -1} }

(* One tree over [0, L), or two trees meeting at b; an edge of both trees  *)
(* is one row.                                                             *)
TsOf(nodes, L, es) ==
    LET tb == [sequence_length |-> L, nodes |-> nodes, edges |-> <<>>]
    IN  [tb EXCEPT !.edges = SortEdges(tb, SeqOfSet(es))]

TwoTreeEdges(pa1, pa2, b, L) ==
    LET both == {c \in DOMAIN pa1 : pa1[c] # -1 /\ pa1[c] = pa2[c]}
    IN  { [left |-> 0, right |-> L, parent |-> pa1[c], child |-> c] : c \in both }
        \cup {e \in EdgesOf(pa1, 0, b) : e.child \notin both}
        \cup {e \in EdgesOf(pa2, b, L) : e.child \notin both}

AllUsed(nodes, pas) ==
    \A u \in 0..(Len(nodes) - 1) :
        nodes[u + 1].flags = 0 => \E pa \in pas : \E c \in DOMAIN pa : pa[c] = u

(* The tree sequences of one tree over a node table, and those of no     *)
(* edge at all.                                                            *)
OneTreeInputs(nodes) ==
    LET lts == LocalTrees(nodes)
    IN  { TsOf(nodes, L, EdgesOf(pa, 0, L)) :
            L \in 1..MaxSpan, pa \in {q \in lts : AllUsed(nodes, {q})} }
        \cup
        { TsOf(nodes, L, {}) :
            L \in {c \in 1..MaxSpan : \A i \in DOMAIN nodes : nodes[i].flags # 0} }

(* The tree sequences of two trees over a node table. *)
TwoTreeInputs(nodes) ==
    LET lts == LocalTrees(nodes)
    IN  { TsOf(nodes, bl[2], TwoTreeEdges(pp[1], pp[2], bl[1], bl[2])) :
            bl \in {c \in (1..MaxSpan) \X (2..(MaxSpan + 1)) : c[1] < c[2]},
            pp \in {qq \in lts \X lts :
                      /\ Cardinality(Samples(TsOf(nodes, 1, {}))) <= PairSamples
                      /\ qq[1] # qq[2]
                      /\ AllUsed(nodes, {qq[1], qq[2]})} }

TsInputs(nodes) == OneTreeInputs(nodes) \cup TwoTreeInputs(nodes)

---------------------------------------------------------------------------
(* The calls as a state machine. *)

Cur == [pc |-> pc, loc |-> loc, tables |-> tables, ret |-> ret]

Becomes(s) ==
    /\ pc' = s.pc
    /\ loc' = s.loc
    /\ tables' = s.tables
    /\ ret' = s.ret

InMs == call \in {"from_ms", "roundtrip"}

(* msout = tsconvert.to_ms(ts), handed to from_ms. *)
roundtrip_to_ms ==
    /\ call = "roundtrip" /\ pc = "to_ms"
    /\ IF NewickFails(arg.ts)
       THEN /\ ret' = Raise("ValueError", "newick needs one root", -1)
            /\ pc' = "done"
            /\ arg' = arg
       ELSE /\ arg' = [arg EXCEPT !.string = to_ms(arg.ts)]
            /\ pc' = "scan"
            /\ ret' = ret
    /\ UNCHANGED <<call, loc, tables>>

from_ms_scan ==
    /\ InMs /\ pc = "scan"
    /\ Becomes(ms_scan(arg.string, Cur))
    /\ UNCHANGED <<call, arg>>

from_ms_parse ==
    /\ InMs /\ pc = "parse"
    /\ Becomes(ms_parse(Cur))
    /\ UNCHANGED <<call, arg>>

from_ms_validate ==
    /\ InMs /\ pc = "validate"
    /\ loc.i < Len(loc.trees)
    /\ Becomes(ms_validate(Cur))
    /\ UNCHANGED <<call, arg>>

from_ms_tables ==
    /\ InMs /\ pc = "validate"
    /\ loc.i = Len(loc.trees)
    /\ Becomes(ms_tables(Cur))
    /\ UNCHANGED <<call, arg>>

from_ms_tree ==
    /\ InMs /\ pc = "trees"
    /\ loc.i < Len(loc.trees)
    /\ Becomes(ms_tree(Cur))
    /\ UNCHANGED <<call, arg>>

from_ms_finish ==
    /\ InMs /\ pc = "trees"
    /\ loc.i = Len(loc.trees)
    /\ Becomes(ms_finish(Cur))
    /\ UNCHANGED <<call, arg>>

InitFromMs ==
    /\ call = "from_ms"
    /\ \/ \E n \in 0..MaxTrees :
             arg \in {[string |-> s, ts |-> NoTables] : s \in ScanInputs(n)}
       \/ \E n \in 1..MaxTrees :
             arg \in {[string |-> s, ts |-> NoTables] : s \in SpanInputs(n)}
       \/ \E t \in AllTrees : arg \in {[string |-> s, ts |-> NoTables] : s \in TreeInputs(t)}
    /\ pc = "scan"

InitOneTree ==
    /\ call = "roundtrip"
    /\ \E nodes \in NodeTables :
          arg \in {[string |-> <<>>, ts |-> t] : t \in OneTreeInputs(nodes)}
    /\ pc = "to_ms"

(* Calls of from_ms on ms text, and on the text to_ms makes of a tree      *)
(* sequence of one tree.                                                   *)
Init ==
    /\ InitFromMs \/ InitOneTree
    /\ loc = MsLocals
    /\ tables = NoTables
    /\ ret = Running

Next ==
    \/ roundtrip_to_ms
    \/ from_ms_scan
    \/ from_ms_parse
    \/ from_ms_validate
    \/ from_ms_tables
    \/ from_ms_tree
    \/ from_ms_finish

Spec == Init /\ [][Next]_vars

(* from_ms(to_ms(ts)) on tree sequences of one tree and of two. *)
InitRoundTrip ==
    /\ call = "roundtrip"
    /\ \E nodes \in NodeTables :
          arg \in {[string |-> <<>>, ts |-> t] : t \in TsInputs(nodes)}
    /\ pc = "to_ms"
    /\ loc = MsLocals
    /\ tables = NoTables
    /\ ret = Running

SpecRoundTrip == InitRoundTrip /\ [][Next]_vars

---------------------------------------------------------------------------
(* from_newick.  The text is a sequence of newick statements; a tree of    *)
(* the newick package is a parsed tree with one field more,                *)
(*   nolen : the nodes whose text gives no length.                         *)

NewickTree(kids, len, lab, nolen) ==
    [kids |-> kids, len |-> len, lab |-> lab, nolen |-> nolen]

(* Node.length: float(self._length or 0.0), 0.0 for a missing length. *)
Length(t, u) == IF u \in t.nolen THEN 0 ELSE t.len[u]

(* Node.walk(): the node, then the walk of each descendant in turn. *)
walk(t) == preorder(t, 1)

NkLocals == [tree |-> NoTree, walk |-> <<>>, id_map |-> <<>>]

NkStart == [pc |-> "loads", loc |-> NkLocals, tables |-> NoTables, ret |-> Running]

(* tables.nodes.add_row(flags=flags, time=time, metadata=metadata): the    *)
(* name of the node, when it has one, goes into the metadata.              *)
nodes_add_row_md(tb, flags, time, name) ==
    [tb EXCEPT !.nodes = Append(@, [flags |-> flags, time |-> time, name |-> name])]

(* A slip: an internal node looked up by its time, as from_ms does, and    *)
(* given the row of an internal node of that time when there is one.       *)
get_or_add_node_by_time(st, t, u, time) ==
    LET same == {i \in NodeIds(st.tables) :
                   ~IsSample(st.tables, i) /\ NodeTime(st.tables, i) = time}
    IN  IF u \in DOMAIN st.id_map THEN st
        ELSE IF ~IsLeaf(t, u) /\ same # {}
        THEN [st EXCEPT !.id_map = (u :> CHOOSE i \in same : TRUE) @@ @]
        ELSE [st EXCEPT !.tables = nodes_add_row_md(@, IF IsLeaf(t, u) THEN NODE_IS_SAMPLE
                                                       ELSE 0, time, t.lab[u]),
                        !.id_map = (u :> NumNodes(st.tables)) @@ @]

(* get_or_add_node: a row for a node that has none, a sample when the node *)
(* has no descendants.                                                     *)
get_or_add_node(st, t, u, time) ==
    IF u \in DOMAIN st.id_map THEN st
    ELSE [st EXCEPT !.tables = nodes_add_row_md(@, IF IsLeaf(t, u) THEN NODE_IS_SAMPLE ELSE 0,
                                                time, t.lab[u]),
                    !.id_map = (u :> NumNodes(st.tables)) @@ @]

(* A slip: the check made against two trees in place of one. *)
TooManyTreesOffByOne(trees) == Len(trees) > 2

(* len(trees) > 1 *)
TooManyTrees(trees) == Len(trees) > 1

(* trees = newick.loads(string), the two checks of their number, the empty *)
(* tables of length 1 and the row of the root, at time 0.                  *)
nk_loads(string, s) ==
    IF TooManyTrees(string)
    THEN Fail(s, Raise("ValueError", "Only one tree can be imported from a newick string", -1))
    ELSE IF Len(string) = 0
    THEN Fail(s, Raise("ValueError", "Newick string was empty", -1))
    ELSE LET tree == string[1]
             st == get_or_add_node([tables |-> TableCollection(1), id_map |-> <<>>],
                                   tree, 1, 0)
         IN  [s EXCEPT !.tables = st.tables,
                       !.loc = [tree |-> tree, walk |-> walk(tree), id_map |-> st.id_map],
                       !.pc = "walk"]

(* A slip: the minimum not applied, the length taken as the text has it. *)
EdgeLengthUnclamped(length, min_edge_length) == length

(* length = max(child.length, min_edge_length) *)
EdgeLength(length, min_edge_length) ==
    IF length >= min_edge_length THEN length ELSE min_edge_length

(* A slip of sign: the child put above its parent. *)
ChildTimeAbove(parent_time, length) == parent_time + length

(* nodes[node_id].time - length *)
ChildTime(parent_time, length) == parent_time - length

(* The loop over newick_node.descendants: a row for the child, below its   *)
(* parent by the length, and the edge over [0, 1); a length that is not    *)
(* positive raises.                                                        *)
RECURSIVE AddDescendants(_, _, _, _, _)
AddDescendants(st, t, children, node_id, min_edge_length) ==
    IF children = <<>> \/ ~st.ok THEN st
    ELSE LET child == Head(children)
             length == EdgeLength(Length(t, child), min_edge_length)
             st1 == get_or_add_node(st, t, child,
                                    ChildTime(NodeTime(st.tables, node_id), length))
             next ==
                 IF length <= 0 THEN [st EXCEPT !.ok = FALSE]
                 ELSE [st1 EXCEPT !.tables =
                          edges_add_row(@, 0, 1, node_id, st1.id_map[child])]
         IN  AddDescendants(next, t, Tail(children), node_id, min_edge_length)

(* A slip: the children taken from the last to the first. *)
descendants_reversed(t, u) ==
    [i \in DOMAIN t.kids[u] |-> t.kids[u][Len(t.kids[u]) + 1 - i]]

(* newick_node.descendants: the children in the order of the text. *)
descendants(t, u) == t.kids[u]

(* One pass of the loop over tree.walk(). *)
nk_walk(min_edge_length, s) ==
    LET newick_node == Head(s.loc.walk)
        st == AddDescendants([tables |-> s.tables, id_map |-> s.loc.id_map, ok |-> TRUE],
                             s.loc.tree, descendants(s.loc.tree, newick_node),
                             s.loc.id_map[newick_node], min_edge_length)
    IN  IF ~st.ok
        THEN Fail(s, Raise("ValueError",
                           "tskit tree sequences cannot contain edges with lengths <= 0", -1))
        ELSE [s EXCEPT !.tables = st.tables, !.loc.id_map = st.id_map,
                       !.loc.walk = Tail(@)]

(* A slip: the largest time taken for the smallest. *)
oldest(tb) ==
    CHOOSE y \in {tb.nodes[i].time : i \in DOMAIN tb.nodes} :
        \A i \in DOMAIN tb.nodes : y >= tb.nodes[i].time

(* youngest = min(tables.nodes.time) *)
youngest(tb) ==
    CHOOSE y \in {tb.nodes[i].time : i \in DOMAIN tb.nodes} :
        \A i \in DOMAIN tb.nodes : y <= tb.nodes[i].time

(* A slip: the length of the root left out of the new times. *)
RewriteTimesNoRoot(tb, root_length) ==
    [tb EXCEPT !.nodes = [i \in DOMAIN tb.nodes |->
                             [tb.nodes[i] EXCEPT !.time = @ - youngest(tb)]]]

(* node.replace(time=node.time - youngest + root.length), for every node *)
RewriteTimes(tb, root_length) ==
    [tb EXCEPT !.nodes = [i \in DOMAIN tb.nodes |->
                             [tb.nodes[i] EXCEPT !.time = @ - youngest(tb) + root_length]]]

(* The times rewritten; tables.sort(); return tables.tree_sequence() *)
nk_finish(s) ==
    LET tb == RewriteTimes(s.tables, Length(s.loc.tree, 1))
    IN  IF SortFails(tb) \/ ~TablesValid(tb)
        THEN Fail(s, Raise("TskitException", "", -1))
        ELSE [s EXCEPT !.tables = tables_sort(tb),
                       !.ret = tree_sequence(tables_sort(tb)), !.pc = "done"]

(* to_newick(tree) = tree.newick(precision=16): the root has no length. *)
to_newick(ts) ==
    LET t == newick(ts, 0) IN NewickTree(t.kids, t.len, t.lab, {1})


---------------------------------------------------------------------------
(* The newick texts read: no statement, two statements, or one statement   *)
(* of a shape on one to three leaves, its lengths negative, zero, positive *)
(* or missing, its root with or without a length; and the minimum lengths  *)
(* the caller may set.                                                     *)

ShapeLeaf == << <<>> >>

NkShapes == {ShapeLeaf, ShapeCherry, ShapeStar, ShapeCatL, ShapeCatR}

(* The leaves named by their place in the text, the other nodes unnamed. *)
NkNames(kids) == [u \in DOMAIN kids |-> IF kids[u] = <<>> THEN u ELSE 0]

NkTreesOfShape(kids) ==
    { NewickTree(kids, [u \in DOMAIN kids |-> IF u \in nolen THEN 0 ELSE l[u]],
                 NkNames(kids), nolen) :
        l \in {f \in [DOMAIN kids -> -1..MaxLen] : f[1] >= 0},
        nolen \in {{}, {1}, {1, Len(kids)}} }

NkTrees == UNION {NkTreesOfShape(kids) : kids \in NkShapes}

MinEdgeLengths == 0..MaxLen

NewickInputs ==
    {<<>>}
    \cup {<<t>> : t \in NkTrees}
    \cup {<<t, t>> : t \in NkTreesOfShape(ShapeLeaf)}

(* The trees written out: a tree sequence of one tree, made of a shape     *)
(* with positive lengths, its youngest leaf at time 0 or later.            *)
RECURSIVE DepthSum(_, _)
DepthSum(t, u) == IF u = 1 THEN 0 ELSE DepthSum(t, ParentOf(t, u)) + t.len[u]

Height(t) ==
    CHOOSE h \in {DepthSum(t, u) : u \in Nodes(t)} : \A u \in Nodes(t) : DepthSum(t, u) <= h

MaxOffset == 1        \* the youngest leaf of a tree is at time 0..MaxOffset

TreeTs(t, offset) ==
    LET nodes == [u \in Nodes(t) |->
                     [flags |-> IF IsLeaf(t, u) THEN NODE_IS_SAMPLE ELSE 0,
                      time |-> offset + Height(t) - DepthSum(t, u)]]
    IN  TsOf(nodes, 1, { [left |-> 0, right |-> 1, parent |-> ParentOf(t, u) - 1,
                          child |-> u - 1] : u \in Nodes(t) \ {1} })

TreeTsOfShape(kids) ==
    { TreeTs(MkTree(kids, [u \in DOMAIN kids |-> IF u = 1 THEN 0 ELSE l[u]], NkNames(kids)),
             offset) :
        l \in [DOMAIN kids -> 1..MaxLen], offset \in 0..MaxOffset }

NewickTsInputs == UNION {TreeTsOfShape(kids) : kids \in NkShapes \cup {ShapeBal}}

---------------------------------------------------------------------------
(* The calls of from_newick as a state machine. *)

InNk == call \in {"from_newick", "newick_roundtrip"}

(* newick = tsconvert.to_newick(ts.first()), handed to from_newick. *)
roundtrip_to_newick ==
    /\ call = "newick_roundtrip" /\ pc = "to_newick"
    /\ arg' = [arg EXCEPT !.string = <<to_newick(arg.ts)>>]
    /\ pc' = "loads"
    /\ UNCHANGED <<call, loc, tables, ret>>

from_newick_loads ==
    /\ InNk /\ pc = "loads"
    /\ Becomes(nk_loads(arg.string, Cur))
    /\ UNCHANGED <<call, arg>>

from_newick_walk ==
    /\ InNk /\ pc = "walk"
    /\ loc.walk # <<>>
    /\ Becomes(nk_walk(arg.min_edge_length, Cur))
    /\ UNCHANGED <<call, arg>>

from_newick_finish ==
    /\ InNk /\ pc = "walk"
    /\ loc.walk = <<>>
    /\ Becomes(nk_finish(Cur))
    /\ UNCHANGED <<call, arg>>

InitFromNewick ==
    /\ call = "from_newick"
    /\ arg \in {[string |-> s, min_edge_length |-> m, ts |-> NoTables] :
                  s \in NewickInputs, m \in MinEdgeLengths}
    /\ pc = "loads"

InitNewickRoundTrip ==
    /\ call = "newick_roundtrip"
    /\ arg \in {[string |-> <<>>, min_edge_length |-> 0, ts |-> t] : t \in NewickTsInputs}
    /\ pc = "to_newick"

InitNewick ==
    /\ InitFromNewick \/ InitNewickRoundTrip
    /\ loc = NkLocals
    /\ tables = NoTables
    /\ ret = Running

NextNewick ==
    \/ roundtrip_to_newick
    \/ from_newick_loads
    \/ from_newick_walk
    \/ from_newick_finish

SpecNewick == InitNewick /\ [][NextNewick]_vars

---------------------------------------------------------------------------
(* from_oriented_forest(n, pi, tau).  pi and tau are lists of lists: the   *)
(* list of locus i is pi[i + 1] here, a function on 0..len - 1, so that    *)
(* pi[i + 1][j] is the source's pi[i][j].                                  *)

len(list) == Cardinality(DOMAIN list)

OfLocals == [i |-> 0, node_maps |-> <<>>]

(* for j in range(n): add_row(time=tau[0][j + 1], flags=NODE_IS_SAMPLE) *)
RECURSIVE AllocateSamples(_, _, _, _)
AllocateSamples(tb, n, tau, j) ==
    IF j >= n THEN tb
    ELSE AllocateSamples(nodes_add_row(tb, NODE_IS_SAMPLE, tau[1][j + 1]), n, tau, j + 1)

(* L = len(pi), the tables of length L and the sample rows; tau[0] of an   *)
(* empty list raises IndexError.                                           *)
of_samples(n, pi, tau, s) ==
    IF n > 0 /\ Len(tau) = 0
    THEN Fail([s EXCEPT !.tables = TableCollection(Len(pi))],
              Raise("IndexError", "list index out of range", -1))
    ELSE [s EXCEPT !.tables = AllocateSamples(TableCollection(Len(pi)), n, tau, 0),
                   !.loc = OfLocals, !.pc = "loci"]

(* A slip: node j taken for row j. *)
SampleMapUnshifted(n) == [j \in 1..n |-> j]

(* node_map = {j + 1: j for j in range(n)} *)
SampleMap(n) == [j \in 1..n |-> j - 1]

(* A slip: the times of the first locus used at every locus. *)
InternalTimeFirstLocus(tau, i, j) == tau[1][j]

(* tau[i][j] *)
InternalTime(tau, i, j) == tau[i + 1][j]

(* A slip: a row looked up by its time, as from_ms does, and added only    *)
(* when no internal row has that time.                                     *)
RECURSIVE AddInternalByTime(_, _, _, _, _)
AddInternalByTime(st, tau, i, j, stop) ==
    IF j >= stop THEN st
    ELSE LET time == InternalTime(tau, i, j)
             same == {u \in NodeIds(st.tables) :
                        ~IsSample(st.tables, u) /\ NodeTime(st.tables, u) = time}
         IN  IF same = {}
             THEN AddInternalByTime(
                      [tables |-> nodes_add_row(st.tables, 0, time),
                       node_map |-> (j :> NumNodes(st.tables)) @@ st.node_map],
                      tau, i, j + 1, stop)
             ELSE AddInternalByTime(
                      [st EXCEPT !.node_map = (j :> CHOOSE u \in same : TRUE) @@ @],
                      tau, i, j + 1, stop)

(* for j in range(n + 1, len(pi[i])):                                      *)
(*     node_map[j] = tables.nodes.add_row(time=tau[i][j], flags=0)         *)
RECURSIVE AddInternal(_, _, _, _, _)
AddInternal(st, tau, i, j, stop) ==
    IF j >= stop THEN st
    ELSE AddInternal([tables |-> nodes_add_row(st.tables, 0, InternalTime(tau, i, j)),
                      node_map |-> (j :> NumNodes(st.tables)) @@ st.node_map],
                     tau, i, j + 1, stop)

(* for j in range(1, len(pi[i])):                                          *)
(*     if pi[i][j] != 0: add_row(i, i + 1, node_map[pi[i][j]], node_map[j]) *)
RECURSIVE AddForestEdges(_, _, _, _, _)
AddForestEdges(st, pi, i, j, stop) ==
    IF j >= stop THEN st
    ELSE AddForestEdges(
             IF pi[i + 1][j] # 0
             THEN [st EXCEPT !.tables = edges_add_row(@, i, i + 1,
                                                      st.node_map[pi[i + 1][j]],
                                                      st.node_map[j])]
             ELSE st,
             pi, i, j + 1, stop)

(* One pass of the loop over range(L). *)
of_locus(n, pi, tau, s) ==
    LET i == s.loc.i
        st0 == [tables |-> s.tables, node_map |-> SampleMap(n)]
        st1 == AddInternal(st0, tau, i, n + 1, len(pi[i + 1]))
        st2 == AddForestEdges(st1, pi, i, 1, len(pi[i + 1]))
    IN  [s EXCEPT !.tables = st2.tables,
                  !.loc.node_maps = Append(@, st2.node_map),
                  !.loc.i = @ + 1]

(* tables.sort(); tables.simplify(); return tables.tree_sequence() *)
of_finish(s) ==
    IF SortFails(s.tables) \/ ~TablesValid(s.tables)
    THEN Fail(s, Raise("TskitException", "", -1))
    ELSE LET tb == tables_simplify(tables_sort(s.tables))
         IN  [s EXCEPT !.tables = tb, !.ret = tree_sequence(tb), !.pc = "done"]

---------------------------------------------------------------------------
(* The oriented forests converted: as the simulators write them, lists of  *)
(* 2n entries for n samples, the samples at time 0, the internal nodes     *)
(* numbered from n + 1 in the order of their times, each with two children *)
(* or more, a node without parent pointing at 0, the entries not in use    *)
(* all 0.  A lineage may stay uncoalesced.  Over several loci a forest     *)
(* stands beside one of three plain ones.                                  *)

ForestSamples == 3    \* samples of an oriented forest: 2..ForestSamples
MaxLoci == 2          \* loci of an oriented forest
ForestTime == 2       \* the times of internal nodes are 1..ForestTime

(* Parents of nodes 1..k: an internal node above the node, or 0. *)
RECURSIVE ForestParents(_, _)
ForestParents(n, k) ==
    IF k = 0 THEN {<<>>}
    ELSE { Append(q, p) :
             q \in ForestParents(n, k - 1),
             p \in {0} \cup {u \in (n + 1)..(2 * n - 1) : u > k} }

(* The forests of one locus; lo is the least time of an internal node, 0   *)
(* for the forests no simulator writes: a parent as young as its child.    *)
LocusForests(n, lo) ==
    LET inner == (n + 1)..(2 * n - 1)
        used(q) == {u \in inner : \E c \in 1..(2 * n - 1) : q[c] = u}
    IN  { [pi |-> [j \in 0..(2 * n - 1) |-> IF j = 0 THEN 0 ELSE q[j]],
           tau |-> [j \in 0..(2 * n - 1) |-> IF j \in used(q) THEN t[j] ELSE 0]] :
            q \in { r \in ForestParents(n, 2 * n - 1) :
                      /\ \A u \in inner \ used(r) : r[u] = 0 /\ (u + 1) \notin used(r)
                      /\ \A u \in used(r) :
                            Cardinality({c \in 1..(2 * n - 1) : r[c] = u}) >= 2 },
            t \in { v \in [inner -> lo..ForestTime] :
                      \A u \in inner : (u + 1) \in inner => v[u] <= v[u + 1] } }

WellTimed(f) ==
    \A j \in DOMAIN f.pi : f.pi[j] # 0 => f.tau[f.pi[j]] > f.tau[j]

(* Three forests to stand beside another: every sample below one node at   *)
(* time 1; the samples joined one after the other at the times 1, 2, ...;  *)
(* and no sample joined to any.                                            *)
Companions(n) ==
    LET J == 0..(2 * n - 1)
        star  == [pi |-> [j \in J |-> IF j \in 1..n THEN n + 1 ELSE 0],
                  tau |-> [j \in J |-> IF j = n + 1 THEN 1 ELSE 0]]
        comb  == [pi |-> [j \in J |->
                            IF j \in 1..2 THEN n + 1
                            ELSE IF j \in 3..n THEN n + j - 1
                            ELSE IF j \in (n + 1)..(2 * n - 2) THEN j + 1
                            ELSE 0],
                  tau |-> [j \in J |-> IF j > n THEN j - n ELSE 0]]
        loose == [pi |-> [j \in J |-> 0], tau |-> [j \in J |-> 0]]
    IN  {star, comb, loose}

(* L loci made of two forests in turn. *)
ForestOf(n, f, g, L) ==
    [n |-> n,
     pi |-> [i \in 1..L |-> IF i % 2 = 1 THEN f.pi ELSE g.pi],
     tau |-> [i \in 1..L |-> IF i % 2 = 1 THEN f.tau ELSE g.tau]]

ForestInputs(n) ==
    LET good == {f \in LocusForests(n, 1) : WellTimed(f)}
    IN  { ForestOf(n, f, g, L) : f \in good, g \in Companions(n), L \in 2..MaxLoci }
        \cup { ForestOf(n, g, f, L) : f \in good, g \in Companions(n), L \in 2..MaxLoci }
        \cup { ForestOf(n, f, f, 1) : f \in LocusForests(n, 0) }
        \cup { [n |-> n, pi |-> <<>>, tau |-> <<>>] }

---------------------------------------------------------------------------
(* The calls of from_oriented_forest as a state machine. *)

InOf == call = "from_oriented_forest"

from_oriented_forest_samples ==
    /\ InOf /\ pc = "samples"
    /\ Becomes(of_samples(arg.n, arg.pi, arg.tau, Cur))
    /\ UNCHANGED <<call, arg>>

from_oriented_forest_locus ==
    /\ InOf /\ pc = "loci"
    /\ loc.i < Len(arg.pi)
    /\ Becomes(of_locus(arg.n, arg.pi, arg.tau, Cur))
    /\ UNCHANGED <<call, arg>>

from_oriented_forest_finish ==
    /\ InOf /\ pc = "loci"
    /\ loc.i = Len(arg.pi)
    /\ Becomes(of_finish(Cur))
    /\ UNCHANGED <<call, arg>>

InitForest ==
    /\ call = "from_oriented_forest"
    /\ \E n \in 2..ForestSamples : arg \in ForestInputs(n)
    /\ pc = "samples"
    /\ loc = OfLocals
    /\ tables = NoTables
    /\ ret = Running

NextForest ==
    \/ from_oriented_forest_samples
    \/ from_oriented_forest_locus
    \/ from_oriented_forest_finish

SpecForest == InitForest /\ [][NextForest]_vars

---------------------------------------------------------------------------
(* from_argon(string, sequence_length).  A line of an ARGON .trees file is *)
(* read as the record of its tab-separated fields                          *)
(*   start, end : the second and third field, positions counted from 1     *)
(*   tree       : the fourth field, a tree in which every node, internal   *)
(*                ones too, carries a label of two words; lab[u] is the    *)
(*                pair of them, the second being the ARGON id.             *)
(* The locals are i, the lines read so far, and id_map, from the pairs     *)
(* (ARGON id, age) to rows of the node table.                              *)

(* int(label.split()[1]), of the node's own label or of its taxon's. *)
get_dendropy_node_id(t, u) == t.lab[u][2]

(* The row of a node: the one made when its pair (id, age) was first seen, *)
(* or a new row, flagged as a sample when the node has no children.        *)
ArgonResolve(st, t, u) ==
    LET key == <<get_dendropy_node_id(t, u), NodeAge(t, u)>>
    IN  IF key \notin DOMAIN st.id_map
        THEN [st EXCEPT !.tables = nodes_add_row(@, IF IsLeaf(t, u) THEN NODE_IS_SAMPLE ELSE 0,
                                                 NodeAge(t, u)),
                        !.id_map = (key :> NumNodes(st.tables)) @@ @]
        ELSE st

(* The inner loop: one edge per child, the child looked up by its pair;    *)
(* the lookup raises KeyError when the pair has no entry yet.              *)
RECURSIVE ArgonEdges(_, _, _, _, _, _)
ArgonEdges(st, t, children, left, right, node_id) ==
    IF children = <<>> \/ ~st.ok THEN st
    ELSE LET child == Head(children)
             key == <<get_dendropy_node_id(t, child), NodeAge(t, child)>>
             next == IF key \notin DOMAIN st.id_map
                     THEN [st EXCEPT !.ok = FALSE]
                     ELSE [st EXCEPT !.tables =
                              edges_add_row(@, left, right, node_id, st.id_map[key])]
         IN  ArgonEdges(next, t, Tail(children), left, right, node_id)

(* The loop over tree.ageorder_node_iter(): every node, leaves too, by     *)
(* ascending age, nodes of one age in preorder.                            *)
RECURSIVE ArgonNodes(_, _, _, _, _)
ArgonNodes(st, t, nodes, left, right) ==
    IF nodes = <<>> \/ ~st.ok THEN st
    ELSE LET node == Head(nodes)
             st1 == ArgonResolve(st, t, node)
             node_id == st1.id_map[<<get_dendropy_node_id(t, node), NodeAge(t, node)>>]
         IN  ArgonNodes(ArgonEdges(st1, t, t.kids[node], left, right, node_id),
                        t, Tail(nodes), left, right)

(* One pass of the loop over the lines.  The ages are computed when the    *)
(* iteration starts, and calc_node_ages() may raise there.                 *)
argon_line(string, s) ==
    LET argon_tree == string[s.loc.i + 1]
        left == argon_tree.start - 1
        right == argon_tree.end
        tree == argon_tree.tree
        st == ArgonNodes([tables |-> s.tables, id_map |-> s.loc.id_map, ok |-> TRUE],
                         tree, AgeSorted(tree, preorder(tree, 1)), left, right)
    IN  IF ~IsUltrametric(tree) THEN Fail(s, Raise("UltrametricityError", "", -1))
        ELSE IF ~st.ok THEN Fail(s, Raise("KeyError", "", -1))
        ELSE [s EXCEPT !.tables = st.tables, !.loc.id_map = st.id_map, !.loc.i = @ + 1]

(* tables.sort(); return tables.tree_sequence().simplify() *)
argon_finish(s) ==
    IF SortFails(s.tables) \/ ~TablesValid(s.tables)
    THEN Fail(s, Raise("TskitException", "", -1))
    ELSE LET tb == tables_sort(s.tables)
         IN  [s EXCEPT !.tables = tb, !.ret = tree_sequence(tables_simplify(tb)),
                       !.pc = "done"]

---------------------------------------------------------------------------
(* The ARGON files converted: trees of two or three leaves, the leaves     *)
(* with the ids 1, 2, ... in text order, the internal nodes with ids       *)
(* above them, which ARGON may repeat.                                     *)

MaxArgonId == 5       \* the ids of internal nodes are MaxLabel + 1..MaxArgonId

ArgonTreesOfShape(kids) ==
    LET leaves == ShapeLeaves(kids)
        inner == (DOMAIN kids) \ leaves
    IN  { MkTree(kids,
                 [u \in DOMAIN kids |-> IF u = 1 THEN 0 ELSE l[u]],
                 [u \in DOMAIN kids |->
                    IF u \in leaves THEN <<0, Cardinality({v \in leaves : v <= u})>>
                    ELSE <<0, id[u]>>]) :
            l \in [(DOMAIN kids) \ {1} -> 0..MaxLen],
            id \in [inner -> (MaxLabel + 1)..MaxArgonId] }

ArgonTrees ==
    ArgonTreesOfShape(ShapeCherry) \cup ArgonTreesOfShape(ShapeCatL)
    \cup ArgonTreesOfShape(ShapeCatR)

(* One tree over the whole sequence, or a tree beside an ultrametric one   *)
(* with branches of positive length, in either order, each over one        *)
(* position.                                                               *)
ArgonInputs(t) ==
    LET plain == {c \in ArgonTreesOfShape(ShapeCherry) \cup ArgonTreesOfShape(ShapeCatL) :
                    \A u \in Range(InternalNodes(c)) :
                        /\ c.len[Head(c.kids[u])] = 1
                        /\ \A i \in DOMAIN c.kids[u] :
                              /\ c.len[c.kids[u][i]] > 0
                              /\ NodeAge(c, u) = NodeAge(c, c.kids[u][i]) + c.len[c.kids[u][i]]}
        line(a, b, tr) == [start |-> a, end |-> b, tree |-> tr]
    IN  {[string |-> <<line(1, 2, t)>>, sequence_length |-> 2]}
        \cup {[string |-> <<line(1, 1, t), line(2, 2, c)>>, sequence_length |-> 2] : c \in plain}
        \cup {[string |-> <<line(1, 1, c), line(2, 2, t)>>, sequence_length |-> 2] : c \in plain}

(* The calls of from_argon as a state machine. *)

(* string_by_lines, the empty table collection and the empty id_map. *)
from_argon_start ==
    /\ call = "from_argon" /\ pc = "start"
    /\ Becomes([Cur EXCEPT !.tables = TableCollection(arg.sequence_length),
                           !.loc = [i |-> 0, id_map |-> <<>>], !.pc = "lines"])
    /\ UNCHANGED <<call, arg>>

from_argon_line ==
    /\ call = "from_argon" /\ pc = "lines"
    /\ loc.i < Len(arg.string)
    /\ Becomes(argon_line(arg.string, Cur))
    /\ UNCHANGED <<call, arg>>

from_argon_finish ==
    /\ call = "from_argon" /\ pc = "lines"
    /\ loc.i = Len(arg.string)
    /\ Becomes(argon_finish(Cur))
    /\ UNCHANGED <<call, arg>>

InitArgon ==
    /\ call = "from_argon"
    /\ \E t \in ArgonTrees : arg \in ArgonInputs(t)
    /\ pc = "start"
    /\ loc = [i |-> 0, id_map |-> <<>>]
    /\ tables = NoTables
    /\ ret = Running

NextArgon ==
    \/ from_argon_start
    \/ from_argon_line
    \/ from_argon_finish

SpecArgon == InitArgon /\ [][NextArgon]_vars

---------------------------------------------------------------------------
(* The three imports side by side: every call of from_ms, from_newick and  *)
(* from_oriented_forest of the specifications above.                       *)

InitImports == Init \/ InitNewick \/ InitForest

NextImports ==
    \/ roundtrip_to_ms
    \/ from_ms_scan
    \/ from_ms_parse
    \/ from_ms_validate
    \/ from_ms_tables
    \/ from_ms_tree
    \/ from_ms_finish
    \/ roundtrip_to_newick
    \/ from_newick_loads
    \/ from_newick_walk
    \/ from_newick_finish
    \/ from_oriented_forest_samples
    \/ from_oriented_forest_locus
    \/ from_oriented_forest_finish

SpecImports == InitImports /\ [][NextImports]_vars

---------------------------------------------------------------------------
(* Notions the properties below are stated with. *)

Done == pc = "done"
Returned == Done /\ ret.kind = "ts"
Raised == Done /\ ret.kind = "error"

(* The internal nodes of the local tree at x: the nodes with children. *)
InnerAt(ts, x) ==
    LET pa == ParentArray(ts, x) IN {u \in DOMAIN pa : ChildrenIn(pa, u) # {}}

(* The topology of the local tree at x over the samples: the set of sample *)
(* sets hanging below its nodes.                                           *)
Clades(ts, x) ==
    LET pa == ParentArray(ts, x)
        below == SamplesBelow(ts, pa)
    IN  {below[u] : u \in DOMAIN pa} \ {{}}

(* No local tree has two internal nodes of equal time. *)
DistinctTimesPerTree(ts) ==
    \A k \in DOMAIN TreeIntervals(ts) :
        \A u, v \in InnerAt(ts, TreeIntervals(ts)[k].left) :
            u # v => NodeTime(ts, u) # NodeTime(ts, v)

(* No two internal nodes of the whole tree sequence have equal time. *)
DistinctTimesOverall(ts) ==
    \A u, v \in NodeIds(ts) \ Samples(ts) : u # v => NodeTime(ts, u) # NodeTime(ts, v)

(* Every local tree has one root. *)
SingleRooted(ts) ==
    \A k \in DOMAIN TreeIntervals(ts) :
        LET pa == ParentArray(ts, TreeIntervals(ts)[k].left)
        IN  Cardinality({u \in Samples(ts) \cup InnerAt(ts, TreeIntervals(ts)[k].left) :
                            pa[u] = -1}) = 1

SameTrees(ts1, ts2) ==
    /\ Samples(ts1) = Samples(ts2)
    /\ TreeIntervals(ts1) = TreeIntervals(ts2)
    /\ \A k \in DOMAIN TreeIntervals(ts1) :
          Clades(ts1, TreeIntervals(ts1)[k].left) = Clades(ts2, TreeIntervals(ts1)[k].left)

RoundTripKeepsTrees ==
    /\ ret.kind = "ts"
    /\ num_trees(ret.ts) = num_trees(arg.ts)
    /\ SameTrees(arg.ts, ret.ts)

---------------------------------------------------------------------------
---------------------------------------------------------------------------
(* What a parsed tree says, in the terms of the tables: the samples under  *)
(* a node, and the length of the branch above it.                          *)

LeafIdsUnder(t, u) ==
    {t.lab[l] - 1 : l \in {v \in Range(preorder(t, u)) : IsLeaf(t, v)}}

InputClades(t) == {LeafIdsUnder(t, u) : u \in Nodes(t)}

InputBranches(t) == {<<LeafIdsUnder(t, w), t.len[w]>> : w \in Nodes(t) \ {1}}

InputAges(t) == {<<LeafIdsUnder(t, u), NodeAge(t, u)>> : u \in Nodes(t)}

(* The same of the local tree at x. *)
BranchesAt(ts, x) ==
    LET pa == ParentArray(ts, x)
        below == SamplesBelow(ts, pa)
    IN  {<<below[c], NodeTime(ts, pa[c]) - NodeTime(ts, c)>> :
            c \in {d \in DOMAIN pa : pa[d] # -1}}

TimesAt(ts, x) ==
    LET pa == ParentArray(ts, x)
        below == SamplesBelow(ts, pa)
    IN  {<<below[u], NodeTime(ts, u)>> : u \in {v \in DOMAIN pa : below[v] # {}}}

(* Where the k-th tree starts: the sum of the spans before it. *)
StartOf(spans, k) == SumSeq(SubSeq(spans, 1, k - 1))

RECURSIVE EdgesBefore(_, _)
EdgesBefore(trees, k) ==
    IF k = 1 THEN 0
    ELSE EdgesBefore(trees, k - 1) + Cardinality(Nodes(trees[k - 1].tree)) - 1

(* While the trees are read: the edges of the trees read so far lie in the *)
(* table in the order of the trees, each over the interval of its tree.    *)
EdgesLeftToRight ==
    (call = "from_ms" /\ pc = "trees")
    => /\ tables.sequence_length = SumSeq(loc.spans)
       /\ Len(tables.edges) = EdgesBefore(loc.trees, loc.i + 1)
       /\ \A k \in 1..loc.i :
            \A j \in (EdgesBefore(loc.trees, k) + 1)..EdgesBefore(loc.trees, k + 1) :
                /\ tables.edges[j].left = StartOf(loc.spans, k)
                /\ tables.edges[j].right = StartOf(loc.spans, k) + loc.spans[k]

---------------------------------------------------------------------------
(* C5: from_ms raises, and builds no table, whenever some tree it parsed   *)
(* has two internal nodes of the same age; the text that to_ms makes of a  *)
(* tree sequence with two internal nodes of equal time in one local tree   *)
(* is such an input, and is rejected for that reason.                      *)
TwoInternalOfOneAge(t) ==
    \E u, v \in Nodes(t) :
        /\ u # v /\ ~IsLeaf(t, u) /\ ~IsLeaf(t, v)
        /\ NodeAge(t, u) = NodeAge(t, v)

C5_EqualAgesRejected ==
    /\ (InMs /\ Done /\ \E k \in DOMAIN loc.trees : TwoInternalOfOneAge(loc.trees[k].tree))
       => (ret.kind = "error" /\ tables = NoTables)
    /\ (call = "roundtrip" /\ Done /\ SingleRooted(arg.ts) /\ ~DistinctTimesPerTree(arg.ts))
       => /\ ret.kind = "error" /\ ret.exc = "ValueError"
          /\ ret.msg = "two internal nodes with the same time"
          /\ tables = NoTables

(* C5 witness: the text of a tree sequence with two cherries of one time   *)
(* under one root has been rejected.                                       *)
C5_Witness ==
    /\ call = "roundtrip" /\ Raised
    /\ ~DistinctTimesPerTree(arg.ts)
    /\ \E k \in DOMAIN loc.trees : TwoInternalOfOneAge(loc.trees[k].tree)
    /\ ret.msg = "two internal nodes with the same time"

---------------------------------------------------------------------------
(* C6: from_ms raises a ValueError whenever some tree it parsed has a set  *)
(* of leaf labels other than the first tree's: fewer tips, more tips, or   *)
(* as many tips with another label.                                        *)
C6_TipsMismatchRejected ==
    (call = "from_ms" /\ Done
       /\ \E k \in DOMAIN loc.trees :
            LeafLabels(loc.trees[k].tree) # LeafLabels(loc.trees[1].tree))
    => /\ ret.kind = "error"
       /\ ret.exc \in {"ValueError", "UltrametricityError"}
       /\ tables = NoTables

(* C6 witness: two trees of as many tips, one label different, rejected    *)
(* for their tips.                                                         *)
C6_Witness ==
    /\ call = "from_ms" /\ Raised
    /\ Len(loc.trees) = 2
    /\ LeafLabels(loc.trees[2].tree) # LeafLabels(loc.trees[1].tree)
    /\ Cardinality(LeafLabels(loc.trees[2].tree)) = Cardinality(LeafLabels(loc.trees[1].tree))
    /\ ret.msg = "does not have all expected tips"

---------------------------------------------------------------------------
(* The interval length in front of a tree, as the text gives it. *)
SpanMissing(c) == c.k \in {"none", "text"}
SpanNotPositive(c) == c.k = "num" /\ c.v <= 0

(* The 1-based number, among the lines of the text, of the k-th tree line  *)
(* read.                                                                   *)
LineNumber(string, k) ==
    (CHOOSE i \in DOMAIN string :
        string[i].bracket /\ \A j \in 1..(i - 1) : ~string[j].bracket) + k - 1

FirstBadSpan(trees) ==
    CHOOSE k \in DOMAIN trees :
        /\ SpanMissing(trees[k].comment) \/ SpanNotPositive(trees[k].comment)
        /\ \A j \in 1..(k - 1) :
             ~(SpanMissing(trees[j].comment) \/ SpanNotPositive(trees[j].comment))

---------------------------------------------------------------------------
(* The first maximal run of lines that start with "[". *)
FirstRun(string) ==
    IF \A i \in DOMAIN string : ~string[i].bracket THEN <<>>
    ELSE LET a == CHOOSE i \in DOMAIN string :
                      string[i].bracket /\ \A j \in 1..(i - 1) : ~string[j].bracket
             b == CHOOSE i \in a..Len(string) :
                      /\ \A j \in a..i : string[j].bracket
                      /\ i = Len(string) \/ ~string[i + 1].bracket
         IN  SubSeq(string, a, b)

(* C8: the trees read are those of the first maximal run of lines that     *)
(* start with "[": lines before it are skipped, the first other line after *)
(* it ends the scan, and a text without such a line is an error.  So the   *)
(* result is that of the run alone, without the lines around it.           *)
C8_FirstRunScanned ==
    call = "from_ms" =>
        /\ (pc # "scan" /\ FirstRun(arg.string) # <<>>)
              => loc.tree_lines = FirstRun(arg.string)
        /\ (pc # "scan" /\ FirstRun(arg.string) = <<>>)
              => /\ Done /\ ret.kind = "error" /\ ret.exc = "ValueError"
                 /\ tables = NoTables
        /\ Done => ret = from_ms(FirstRun(arg.string))

(* C8 witness: a text with a header, a tree block, and a trailer that has  *)
(* a line starting with "[" has been read into a tree sequence.            *)
C8_Witness ==
    /\ call = "from_ms" /\ Returned
    /\ ~arg.string[1].bracket
    /\ arg.string[Len(arg.string)].bracket
    /\ Len(FirstRun(arg.string)) < Cardinality({i \in DOMAIN arg.string : arg.string[i].bracket})
    /\ Len(loc.trees) = 2

---------------------------------------------------------------------------
(* from_newick: what the text says, and what the tree sequence holds.      *)

Max(a, b) == IF a > b THEN a ELSE b

(* The sum, from the root down to u, of the lengths max(L, m). *)
RECURSIVE PathSum(_, _, _)
PathSum(t, u, m) ==
    IF u = 1 THEN 0 ELSE PathSum(t, ParentOf(t, u), m) + Max(Length(t, u), m)

LongestPath(t, m) ==
    CHOOSE h \in {PathSum(t, u, m) : u \in Nodes(t)} :
        \A u \in Nodes(t) : PathSum(t, u, m) <= h

MinTime(ts) ==
    CHOOSE x \in {NodeTime(ts, u) : u \in NodeIds(ts)} :
        \A u \in NodeIds(ts) : x <= NodeTime(ts, u)

FromNewickOne == call = "from_newick" /\ Len(arg.string) = 1

(* The times of the nodes as a multiset, each lowered by shift. *)
TimeBag(ts, shift) ==
    [x \in {NodeTime(ts, u) - shift : u \in NodeIds(ts)} |->
        Cardinality({u \in NodeIds(ts) : NodeTime(ts, u) - shift = x})]

(* The nodes of a tree sequence of one tree, each as the set of leaves     *)
(* below it and its time lowered by shift; a leaf of the tree written out  *)
(* is known by its id, a leaf of the tree read back by its name, which is  *)
(* that id plus one.                                                       *)
NodesById(ts, shift) ==
    LET below == SamplesBelow(ts, ParentArray(ts, 0))
    IN  {<<below[u], NodeTime(ts, u) - shift>> : u \in NodeIds(ts)}

NodesByName(ts) ==
    LET below == SamplesBelow(ts, ParentArray(ts, 0))
    IN  {<<{ts.nodes[l + 1].name - 1 : l \in below[u]}, NodeTime(ts, u)>> : u \in NodeIds(ts)}

SameStructure(T, ts) ==
    /\ NumNodes(ts) = NumNodes(T)
    /\ Len(ts.edges) = Len(T.edges)
    /\ {p[1] : p \in NodesByName(ts)} = {p[1] : p \in NodesById(T, 0)}

(* C2 as stated: from_newick(to_newick(T)) is a tree sequence of one local *)
(* tree with the parent/child structure of T up to the naming of the nodes *)
(* and with the multiset of node times of T.                               *)
C2_RoundTripTimes ==
    (call = "newick_roundtrip" /\ Done)
    => /\ ret.kind = "ts"
       /\ num_trees(ret.ts) = 1
       /\ SameStructure(arg.ts, ret.ts)
       /\ TimeBag(ret.ts, 0) = TimeBag(arg.ts, 0)

(* C2 amended: one local tree with the structure of T, and with the node   *)
(* times of T lowered by the time of the youngest node of T: the times of  *)
(* T itself when its youngest node is at time zero.                        *)
C2_RoundTrip ==
    (call = "newick_roundtrip" /\ Done)
    => /\ ret.kind = "ts"
       /\ num_trees(ret.ts) = 1
       /\ SameStructure(arg.ts, ret.ts)
       /\ TimeBag(ret.ts, 0) = TimeBag(arg.ts, MinTime(arg.ts))
       /\ NodesByName(ret.ts) = NodesById(arg.ts, MinTime(arg.ts))

(* C2 witness: a tree with a node of three children and leaves at time     *)
(* zero has made the round trip.                                           *)
C2_Witness ==
    /\ call = "newick_roundtrip" /\ Returned
    /\ MinTime(arg.ts) = 0
    /\ \E u \in NodeIds(arg.ts) : Cardinality(ChildrenIn(ParentArray(arg.ts, 0), u)) = 3
    /\ TimeBag(ret.ts, 0) = TimeBag(arg.ts, 0)

---------------------------------------------------------------------------
(* C4: from_newick(text, m) records every branch of input length L with    *)
(* the length max(L, m): the edge from the row of the parent to the row of *)
(* the child spans a time of max(L, m) > 0; and when max(L, m) <= 0 for    *)
(* some branch the call raises ValueError and returns no tree sequence.    *)
C4_EdgeLengths ==
    (FromNewickOne /\ Done)
    => LET t == arg.string[1]
           m == arg.min_edge_length
       IN  IF \E w \in Nodes(t) \ {1} : Max(Length(t, w), m) <= 0
           THEN ret.kind = "error" /\ ret.exc = "ValueError" /\ ret.ts = NoTables
           ELSE /\ ret.kind = "ts"
                /\ Len(ret.ts.edges) = Cardinality(Nodes(t)) - 1
                /\ \A w \in Nodes(t) \ {1} :
                     \E e \in EdgeSet(ret.ts) :
                        /\ e.parent = loc.id_map[ParentOf(t, w)]
                        /\ e.child = loc.id_map[w]
                        /\ NodeTime(ret.ts, e.parent) - NodeTime(ret.ts, e.child)
                             = Max(Length(t, w), m)
                        /\ NodeTime(ret.ts, e.parent) - NodeTime(ret.ts, e.child) > 0

(* C4 witness: a positive length below the minimum has been recorded as    *)
(* the minimum.                                                            *)
C4_Witness ==
    /\ FromNewickOne /\ Returned
    /\ \E w \in Nodes(arg.string[1]) \ {1} :
          /\ Length(arg.string[1], w) > 0
          /\ Length(arg.string[1], w) < arg.min_edge_length
          /\ \E e \in EdgeSet(ret.ts) :
                /\ e.child = loc.id_map[w]
                /\ NodeTime(ret.ts, e.parent) - NodeTime(ret.ts, e.child)
                     = arg.min_edge_length

---------------------------------------------------------------------------
(* C9: the length r of the root goes into the time of the root, which is r *)
(* plus the longest sum of recorded lengths from the root to a leaf; the   *)
(* root is the child of no edge, and there is one edge less than nodes.    *)
C9_RootLength ==
    (FromNewickOne /\ Returned)
    => LET t == arg.string[1]
       IN  /\ NodeTime(ret.ts, loc.id_map[1])
                = Length(t, 1) + LongestPath(t, arg.min_edge_length)
           /\ \A e \in EdgeSet(ret.ts) : e.child # loc.id_map[1]
           /\ Len(ret.ts.edges) = NumNodes(ret.ts) - 1

(* C9 witness: a tree of two levels whose root has a positive length has   *)
(* been read.                                                              *)
C9_Witness ==
    /\ FromNewickOne /\ Returned
    /\ Length(arg.string[1], 1) > 0
    /\ Cardinality(Nodes(arg.string[1])) = 5
    /\ NodeTime(ret.ts, loc.id_map[1]) > LongestPath(arg.string[1], arg.min_edge_length)

---------------------------------------------------------------------------
(* Every node stands below the root by the sum of the lengths recorded on  *)
(* its path: the times differ from the times of the walk by one constant.  *)
ShiftedByOneConstant ==
    LET t == arg.string[1]
    IN  \A u \in Nodes(t) :
            NodeTime(ret.ts, loc.id_map[1]) - NodeTime(ret.ts, loc.id_map[u])
              = PathSum(t, u, arg.min_edge_length)

---------------------------------------------------------------------------
(* C11: from_newick needs exactly one tree.  A text of no statement, and a *)
(* text of more than one, make the call raise ValueError ("Newick string   *)
(* was empty", "Only one tree can be imported from a newick string") at    *)
(* its first step: no row is made and no tree sequence is returned.        *)
C11_ExactlyOneTree ==
    (call = "from_newick" /\ Len(arg.string) # 1)
    => /\ pc \in {"loads", "done"}
       /\ tables = NoTables
       /\ Done => /\ ret.kind = "error" /\ ret.exc = "ValueError"
                  /\ ret.ts = NoTables
                  /\ ret.msg = IF Len(arg.string) = 0
                               THEN "Newick string was empty"
                               ELSE "Only one tree can be imported from a newick string"

(* C11 witness: a text of two statements has been refused. *)
C11_Witness ==
    /\ call = "from_newick" /\ Raised
    /\ Len(arg.string) = 2
    /\ ret.msg = "Only one tree can be imported from a newick string"

---------------------------------------------------------------------------
(* from_oriented_forest: what the lists say, and what the tables hold.     *)

Loci == 0..(Len(arg.pi) - 1)

(* tau[u] for u = j, pi[j], pi[pi[j]], ... until u = 0 *)
RECURSIVE TauPath(_, _, _)
TauPath(pi_i, tau_i, u) ==
    IF u = 0 THEN <<>> ELSE <<tau_i[u]>> \o TauPath(pi_i, tau_i, pi_i[u])

(* tree.time(u) for u = j, its parent, ... up to the root of the tree at x *)
TimePath(ts, x, u) ==
    LET P == PathUp(ParentArray(ts, x), u)
    IN  [k \in DOMAIN P |-> NodeTime(ts, P[k])]

(* The internal entries of locus i that have children. *)
UsedInternal(i) ==
    {j \in DOMAIN arg.pi[i + 1] :
        j > arg.n /\ \E c \in DOMAIN arg.pi[i + 1] : c # 0 /\ arg.pi[i + 1][c] = j}

---------------------------------------------------------------------------
(* C13: the tree sequence returned has the length len(pi), exactly n       *)
(* samples, the nodes 0..n-1, and the edges of locus i over [i, i + 1):    *)
(* node j of the lists is sample j - 1 at every locus, below the node its  *)
(* parent pi[i][j] stands for, or a root when pi[i][j] is 0.               *)
C13_LociAndSamples ==
    /\ (InOf /\ pc = "loci")
       => /\ tables.sequence_length = Len(arg.pi)
          /\ Samples(tables) = 0..(arg.n - 1)
          /\ \A i \in 0..(loc.i - 1) :
                /\ \A j \in 1..arg.n : loc.node_maps[i + 1][j] = j - 1
                /\ \A j \in DOMAIN arg.pi[i + 1] :
                      (j # 0 /\ arg.pi[i + 1][j] # 0)
                      => [left |-> i, right |-> i + 1,
                          parent |-> loc.node_maps[i + 1][arg.pi[i + 1][j]],
                          child |-> loc.node_maps[i + 1][j]] \in EdgeSet(tables)
          /\ \A e \in EdgeSet(tables) : e.left \in 0..(loc.i - 1) /\ e.right = e.left + 1
    /\ (InOf /\ Returned)
       => /\ ret.ts.sequence_length = Len(arg.pi)
          /\ Samples(ret.ts) = 0..(arg.n - 1)
          /\ \A i \in Loci : \A j \in 1..arg.n :
                LET pa == ParentArray(ret.ts, i)
                IN  IF arg.pi[i + 1][j] = 0 THEN pa[j - 1] = -1
                    ELSE /\ pa[j - 1] # -1
                         /\ NodeTime(ret.ts, pa[j - 1]) = arg.tau[i + 1][arg.pi[i + 1][j]]

(* C13 witness: two loci of three samples have been converted, and the     *)
(* last sample is a root at one locus and a child at the other.            *)
C13_Witness ==
    /\ InOf /\ Returned
    /\ arg.n = 3 /\ ret.ts.sequence_length = 2
    /\ ParentArray(ret.ts, 0)[2] = -1
    /\ ParentArray(ret.ts, 1)[2] # -1

---------------------------------------------------------------------------
(* C14 as stated: internal nodes of two loci that have the same time get   *)
(* the same node id.                                                       *)
C14_SameTimeMerged ==
    (InOf /\ pc = "loci")
    => \A i, k \in 0..(loc.i - 1) : \A j \in UsedInternal(i) : \A m \in UsedInternal(k) :
          (i # k /\ arg.tau[i + 1][j] = arg.tau[k + 1][m])
          => loc.node_maps[i + 1][j] = loc.node_maps[k + 1][m]

(* C14 amended: no check is made of the times, and internal nodes are not  *)
(* merged, whatever their times: every internal entry of every locus gets  *)
(* a row of its own, a forest whose parents are all older than their       *)
(* children is converted, and in the tree sequence returned no internal    *)
(* node is in the trees of two loci.                                       *)
C14_SameTimeKeptApart ==
    /\ (InOf /\ pc = "loci")
       => /\ \A i, k \in 0..(loc.i - 1) :
                \A j \in (arg.n + 1)..(len(arg.pi[i + 1]) - 1) :
                   \A m \in (arg.n + 1)..(len(arg.pi[k + 1]) - 1) :
                      (i # k \/ j # m) => loc.node_maps[i + 1][j] # loc.node_maps[k + 1][m]
          /\ NumNodes(tables) = arg.n + loc.i * (arg.n - 1)
    /\ (InOf /\ Done /\ Len(arg.pi) > 0
          /\ \A i \in Loci : WellTimed([pi |-> arg.pi[i + 1], tau |-> arg.tau[i + 1]]))
       => /\ ret.kind = "ts"
          /\ \A i, k \in Loci : i # k => InnerAt(ret.ts, i) \cap InnerAt(ret.ts, k) = {}

(* C14 witness: two loci with the same forest, its internal node at the    *)
(* same time at both, have been converted to two trees with an internal    *)
(* node each.                                                              *)
C14_Witness ==
    /\ InOf /\ Returned
    /\ Len(arg.pi) = 2 /\ arg.pi[1] = arg.pi[2] /\ arg.tau[1] = arg.tau[2]
    /\ InnerAt(ret.ts, 0) # {}
    /\ InnerAt(ret.ts, 0) \cap InnerAt(ret.ts, 1) = {}

---------------------------------------------------------------------------
(* from_ms while the trees are read: the trees read so far, their leaves   *)
(* and their internal nodes.                                               *)

TreesRead == 1..loc.i

TreeAt(k) == loc.trees[k].tree

LeavesOf(t) == Range(leaf_node_iter(t))

InternalOf(t) == Range(InternalNodes(t))

(* The row an edge names for node u of tree t: label - 1 for a leaf, the   *)
(* entry of its age for an internal node.                                  *)
RowOf(t, u) == IF IsLeaf(t, u) THEN t.lab[u] - 1 ELSE loc.age_id_map[NodeAge(t, u)]

(* C15: the identity of a leaf in from_ms is its label.  The sample rows   *)
(* are the rows made of the leaves of the first tree, rows 0..n-1, and no  *)
(* sample row is made later; the edge above a leaf labelled k names the    *)
(* child k - 1 in the interval of every tree; and in a tree sequence       *)
(* returned k - 1 is one of these samples, below a parent in every         *)
(* interval.                                                               *)
C15_LeafIdentity ==
    /\ (InMs /\ pc = "trees")
       => /\ Samples(tables) = 0..(Len(leaf_node_iter(TreeAt(1))) - 1)
          /\ \A k \in TreesRead : \A u \in LeavesOf(TreeAt(k)) :
                \E e \in EdgeSet(tables) :
                   /\ e.child = TreeAt(k).lab[u] - 1
                   /\ e.left = StartOf(loc.spans, k)
                   /\ e.right = StartOf(loc.spans, k + 1)
                   /\ e.parent = RowOf(TreeAt(k), ParentOf(TreeAt(k), u))
    /\ (InMs /\ Returned)
       => /\ Samples(ret.ts) = 0..(Len(leaf_node_iter(TreeAt(1))) - 1)
          /\ \A k \in DOMAIN loc.trees : \A u \in LeavesOf(TreeAt(k)) :
                /\ TreeAt(k).lab[u] - 1 \in Samples(ret.ts)
                /\ ParentArray(ret.ts, StartOf(loc.spans, k))[TreeAt(k).lab[u] - 1] # -1

(* C15 witness: two trees of three leaves, written with their leaves in    *)
(* different orders, have been converted.                                  *)
C15_Witness ==
    /\ call = "from_ms" /\ Returned
    /\ Len(loc.trees) = 2
    /\ Cardinality(Samples(ret.ts)) = 3
    /\ [i \in 1..3 |-> TreeAt(1).lab[leaf_node_iter(TreeAt(1))[i]]]
         # [i \in 1..3 |-> TreeAt(2).lab[leaf_node_iter(TreeAt(2))[i]]]

---------------------------------------------------------------------------
(* The ages of the internal nodes of the trees read so far. *)
AgesRead == UNION {{NodeAge(TreeAt(k), u) : u \in InternalOf(TreeAt(k))} : k \in TreesRead}

(* C20: the identity of an internal node in from_ms is its age, over all   *)
(* the trees.  While the trees are read the age map has one entry for each *)
(* age of an internal node read so far, no two ages share a row, the row   *)
(* of an age is not a sample and has that age as its time, the edges of    *)
(* every tree name the rows of the map, and the rows that are not samples  *)
(* are as many as the ages: as many as the distinct ages of the internal   *)
(* nodes of the input once the last tree is read, before simplification.   *)
C20_IdentityByAge ==
    (InMs /\ pc = "trees")
    => /\ DOMAIN loc.age_id_map = AgesRead
       /\ \A a, b \in DOMAIN loc.age_id_map :
             a # b => loc.age_id_map[a] # loc.age_id_map[b]
       /\ \A a \in DOMAIN loc.age_id_map :
             /\ loc.age_id_map[a] \in NodeIds(tables) \ Samples(tables)
             /\ NodeTime(tables, loc.age_id_map[a]) = a
       /\ Cardinality(NodeIds(tables) \ Samples(tables)) = Cardinality(AgesRead)
       /\ \A k \in TreesRead : \A u \in InternalOf(TreeAt(k)) :
             \A c \in Range(TreeAt(k).kids[u]) :
                [left |-> StartOf(loc.spans, k), right |-> StartOf(loc.spans, k + 1),
                 parent |-> RowOf(TreeAt(k), u), child |-> RowOf(TreeAt(k), c)]
                  \in EdgeSet(tables)

(* C20 witness: two trees of two internal nodes each have been read, one   *)
(* age in both trees, and three rows stand for the four nodes.             *)
C20_Witness ==
    /\ call = "from_ms" /\ pc = "trees"
    /\ loc.i = 2 /\ Len(loc.trees) = 2
    /\ Cardinality(InternalOf(TreeAt(1))) = 2
    /\ Cardinality(InternalOf(TreeAt(2))) = 2
    /\ Cardinality(NodeIds(tables) \ Samples(tables)) = 3

---------------------------------------------------------------------------
(* from_newick: the rows of the leaves and of the internal nodes.          *)

OneStatement == InNk /\ Len(arg.string) = 1

(* The leaves in the order of the text. *)
TextLeaves(t) == leaf_node_iter(t)

(* The nodes above u, its parent included. *)
RECURSIVE Ancestors(_, _)
Ancestors(t, u) ==
    IF u = 1 THEN {} ELSE {ParentOf(t, u)} \cup Ancestors(t, ParentOf(t, u))

(* C16 as stated: a leaf that comes before another in the text has the     *)
(* smaller node id, in every tree.                                         *)
C16_LeafIdsInTextOrder ==
    (OneStatement /\ Returned)
    => LET L == TextLeaves(arg.string[1])
       IN  \A a, b \in DOMAIN L : a < b => loc.id_map[L[a]] < loc.id_map[L[b]]

(* C16 amended: the ids follow the order in which the rows are made, the   *)
(* root first and then the children of each node of the walk in the order  *)
(* of the text.  A leaf A that comes before a leaf B in the text has the   *)
(* smaller id unless the parent of B is above the parent of A, and then B  *)
(* has the smaller id.                                                     *)
C16_LeafIdsInWalkOrder ==
    (OneStatement /\ Returned)
    => LET t == arg.string[1]
           L == TextLeaves(t)
       IN  /\ loc.id_map[1] = 0
           /\ \A a, b \in DOMAIN L :
                 a < b => IF ParentOf(t, L[b]) \in Ancestors(t, ParentOf(t, L[a]))
                          THEN loc.id_map[L[b]] < loc.id_map[L[a]]
                          ELSE loc.id_map[L[a]] < loc.id_map[L[b]]
           /\ \A a \in DOMAIN L : IsSample(ret.ts, loc.id_map[L[a]])

(* C16 witness: a tree has been read in which the last leaf of the text    *)
(* hangs from the root, beside a node of two leaves, and has a smaller id  *)
(* than they have.                                                         *)
C16_Witness ==
    /\ call = "from_newick" /\ Len(arg.string) = 1 /\ Returned
    /\ LET L == TextLeaves(arg.string[1])
       IN  /\ Len(L) = 3
           /\ loc.id_map[L[3]] < loc.id_map[L[1]]
           /\ loc.id_map[L[1]] < loc.id_map[L[2]]

---------------------------------------------------------------------------
(* Two internal nodes of the tree at one time: at one distance from the    *)
(* root, by the lengths as they are recorded.                              *)
EqualTimeInternals(t, m) ==
    \E u, v \in Nodes(t) :
        /\ u # v /\ ~IsLeaf(t, u) /\ ~IsLeaf(t, v)
        /\ PathSum(t, u, m) = PathSum(t, v, m)

RecordedPositive(t, m) == \A w \in Nodes(t) \ {1} : Max(Length(t, w), m) > 0

(* C17 as stated: from_newick raises, and returns no table, for a tree in  *)
(* which two internal nodes have the same time.                            *)
C17_EqualTimesRejected ==
    (OneStatement /\ Done /\ EqualTimeInternals(arg.string[1], arg.min_edge_length))
    => (ret.kind = "error" /\ ret.ts = NoTables)

(* C17 amended: from_newick makes no check of the times.  A tree in which  *)
(* two internal nodes have the same time, its recorded lengths positive,   *)
(* is converted, every node with a row of its own: the tree sequence       *)
(* returned has two internal nodes of one time.                            *)
C17_EqualTimesImported ==
    (OneStatement /\ Done /\ EqualTimeInternals(arg.string[1], arg.min_edge_length)
       /\ RecordedPositive(arg.string[1], arg.min_edge_length))
    => /\ ret.kind = "ts"
       /\ NumNodes(ret.ts) = Cardinality(Nodes(arg.string[1]))
       /\ \A u, v \in Nodes(arg.string[1]) : u # v => loc.id_map[u] # loc.id_map[v]
       /\ \E i, j \in NodeIds(ret.ts) \ Samples(ret.ts) :
             i # j /\ NodeTime(ret.ts, i) = NodeTime(ret.ts, j)

(* C17 witness: a tree of two pairs of leaves, the parents of the pairs at *)
(* one time, has been converted.                                           *)
C17_Witness ==
    /\ InNk /\ Returned
    /\ Len(arg.string) = 1
    /\ EqualTimeInternals(arg.string[1], arg.min_edge_length)
    /\ Cardinality(Samples(ret.ts)) = 4

---------------------------------------------------------------------------
(* to_ms: the local trees of the tree sequence written, told from its      *)
(* edges position by position, and the lines of the text.                  *)

(* The positions at which a local tree begins: 0, and every position whose *)
(* edges are not the edges of the position before.                         *)
TreeStarts(ts) ==
    {x \in 0..(ts.sequence_length - 1) : x = 0 \/ EdgesAt(ts, x) # EdgesAt(ts, x - 1)}

(* The end of the tree that begins at x. *)
TreeEnd(ts, x) ==
    CHOOSE y \in (x + 1)..ts.sequence_length :
        /\ y = ts.sequence_length \/ y \in TreeStarts(ts)
        /\ \A z \in (x + 1)..(y - 1) : z \notin TreeStarts(ts)

OneRootEverywhere(ts) ==
    \A x \in 0..(ts.sequence_length - 1) :
        Cardinality({u \in NodeIds(ts) :
                       /\ ParentArray(ts, x)[u] = -1
                       /\ (IsSample(ts, u) \/ ChildrenIn(ParentArray(ts, x), u) # {})}) = 1

(* The text has one line for each local tree, from left to right, made of  *)
(* the length right - left of the tree and of its newick text; the lengths *)
(* add up to the sequence length, each line beginning where the line       *)
(* before it ends.                                                         *)
EntryPerTree(ts, text) ==
    LET starts == SetToSeq(TreeStarts(ts))
    IN  /\ Len(text) = Len(starts)
        /\ \A k \in DOMAIN text :
              /\ text[k].bracket
              /\ text[k].comment = Comment("num", TreeEnd(ts, starts[k]) - starts[k])
              /\ text[k].tree = newick(ts, starts[k])
              /\ SumSeq([j \in 1..(k - 1) |-> text[j].comment.v]) = starts[k]
        /\ SumSeq([j \in DOMAIN text |-> text[j].comment.v]) = ts.sequence_length

(* C18 as stated: to_ms writes one entry for each local tree of any tree   *)
(* sequence.                                                               *)
C18_EntryPerTree ==
    (call = "roundtrip" /\ pc # "to_ms") => EntryPerTree(arg.ts, arg.string)

(* C18 amended: to_ms writes one entry for each local tree, as above, of a *)
(* tree sequence whose local trees have one root each; for a tree sequence *)
(* with a local tree of several roots it raises ValueError and writes      *)
(* nothing.                                                                *)
C18_EntryPerRootedTree ==
    (call = "roundtrip" /\ pc # "to_ms")
    => IF OneRootEverywhere(arg.ts)
       THEN EntryPerTree(arg.ts, arg.string)
       ELSE /\ Raised /\ ret.exc = "ValueError"
            /\ arg.string = <<>>

(* C18 witness: a tree sequence of two local trees of different lengths    *)
(* has been written.                                                       *)
C18_Witness ==
    /\ call = "roundtrip" /\ pc # "to_ms"
    /\ Len(arg.string) = 2
    /\ arg.string[1].comment.v # arg.string[2].comment.v
    /\ arg.string[1].tree # arg.string[2].tree

---------------------------------------------------------------------------
(* C19: no partial table.  A call of from_ms, from_newick or               *)
(* from_oriented_forest that fails returns no table, whatever rows it had  *)
(* made, and nothing is returned before a call ends; a failure that        *)
(* from_ms finds by its own checks comes before its first row; and when    *)
(* from_ms has made a row, every tree has passed every check: its interval *)
(* length is read, its tips are all there, its internal nodes differ in    *)
(* age.                                                                    *)
C19_NoPartialTable ==
    /\ Raised => ret.ts = NoTables
    /\ ~Done => ret = Running
    /\ (InMs /\ Raised /\ ret.exc = "ValueError") => tables = NoTables
    /\ (InMs /\ tables # NoTables)
       => /\ Len(loc.spans) = Len(loc.trees)
          /\ \A k \in DOMAIN loc.trees :
                /\ SpanParses(loc.trees[k].comment)
                /\ loc.spans[k] = loc.trees[k].comment.v
                /\ LeafLabels(TreeAt(k)) = LeafLabels(TreeAt(1))
                /\ ~TwoInternalOfOneAge(TreeAt(k))

(* C19 witness: a call of from_newick has failed with rows in its table,   *)
(* and has returned none.                                                  *)
C19_Witness ==
    /\ call = "from_newick" /\ Raised
    /\ NumNodes(tables) > 1
    /\ ret.ts = NoTables

---------------------------------------------------------------------------
(* The edges of a table over the position x, by their place in the table. *)
EdgesOver(tb, x) ==
    {i \in DOMAIN tb.edges : tb.edges[i].left <= x /\ x < tb.edges[i].right}

(* No node is the child of two edges over x. *)
ChildOfOne(tb, x) ==
    \A i, j \in EdgesOver(tb, x) : tb.edges[i].child = tb.edges[j].child => i = j

(* Every node an edge names is a row of the node table. *)
IdsExist(tb) ==
    \A e \in EdgeSet(tb) : e.parent \in NodeIds(tb) /\ e.child \in NodeIds(tb)

---------------------------------------------------------------------------
(* In tree t every internal node is strictly older than each child of it  *)
(* that is internal too: the rows of an edge between them carry these ages. *)
InternalEdgesPointUp(t) ==
    \A u \in InternalOf(t) : \A c \in Range(t.kids[u]) :
        ~IsLeaf(t, c) => NodeAge(t, u) > NodeAge(t, c)

(* C22: in from_ms, once the validation loop has passed every tree, the    *)
(* age of an internal child is in the age-to-id map whenever its edge is   *)
(* recorded: the lookup never raises KeyError, and every edge recorded to  *)
(* an internal child has a parent strictly older than the child.           *)
C22_ChildResolvedFirst ==
    InMs =>
        /\ ~(Raised /\ ret.exc = "KeyError")
        /\ (pc = "trees" => \A k \in TreesRead : InternalEdgesPointUp(TreeAt(k)))

---------------------------------------------------------------------------
(* The pair from_argon resolves node u of tree t by, and the nodes of the  *)
(* lines read so far.                                                      *)
ArgonKey(t, u) == <<get_dendropy_node_id(t, u), NodeAge(t, u)>>

ArgonNodesRead == UNION {{<<k, u>> : u \in Nodes(arg.string[k].tree)} : k \in 1..loc.i}

ArgonKeyOf(n) == ArgonKey(arg.string[n[1]].tree, n[2])

(* Two nodes of the lines read share a row exactly when they have the same *)
(* id and the same age.                                                    *)
RowByIdAndAge ==
    \A m, n \in ArgonNodesRead :
        (loc.id_map[ArgonKeyOf(m)] = loc.id_map[ArgonKeyOf(n)]) <=> (ArgonKeyOf(m) = ArgonKeyOf(n))

(* C23: from_argon resolves a tree node by the pair (ARGON id, age) over   *)
(* all lines: two nodes share a row of the node table if and only if they  *)
(* have the same id and the same age, and the pair of every child is in    *)
(* id_map when the edges of its parent are added, so that the lookup never *)
(* raises KeyError.                                                        *)
C23_KeyByIdAndAge ==
    call = "from_argon" =>
        /\ RowByIdAndAge
        /\ ~(Raised /\ ret.exc = "KeyError")

=============================================================================
